---- MODULE Spec2Model ----
(***************************************************************************)
(* Format-preserving encryption library (FF1, FF3, FF3-1 over a 128-bit    *)
(* block cipher): the context life cycle of fpe.c, the three Feistel       *)
(* engines of ff1.c, ff3.c and ff3-1.c with their numeral codecs, and the  *)
(* validation helpers of utils.c.                                          *)
(*                                                                         *)
(* Buffers are sequences (index 1 is C index 0); bytes are 0..255; every   *)
(* multi-byte computation is done byte by byte as the C code does it.      *)
(***************************************************************************)
EXTENDS Integers, Sequences, FiniteSets, TLC

(***************************************************************************)
(* Byte helpers                                                            *)
(***************************************************************************)

\* A function with domain 1..n as an explicit tuple (an array holding its
\* elements rather than the rule that computes them).
AsSeq(f) == f \o << >>

\* TLC hands an operator its arguments unevaluated; comparing a value with
\* itself evaluates it, so that a loop's accumulator is computed step by
\* step instead of as one nested expression at the end.
Evaluated(v) == v = v

\* XOR of two 4-bit values, as a table (C operator ^ on nibbles).
Xor4 ==
   << <<  0,  1,  2,  3,  4,  5,  6,  7,  8,  9, 10, 11, 12, 13, 14, 15 >>,
      <<  1,  0,  3,  2,  5,  4,  7,  6,  9,  8, 11, 10, 13, 12, 15, 14 >>,
      <<  2,  3,  0,  1,  6,  7,  4,  5, 10, 11,  8,  9, 14, 15, 12, 13 >>,
      <<  3,  2,  1,  0,  7,  6,  5,  4, 11, 10,  9,  8, 15, 14, 13, 12 >>,
      <<  4,  5,  6,  7,  0,  1,  2,  3, 12, 13, 14, 15,  8,  9, 10, 11 >>,
      <<  5,  4,  7,  6,  1,  0,  3,  2, 13, 12, 15, 14,  9,  8, 11, 10 >>,
      <<  6,  7,  4,  5,  2,  3,  0,  1, 14, 15, 12, 13, 10, 11,  8,  9 >>,
      <<  7,  6,  5,  4,  3,  2,  1,  0, 15, 14, 13, 12, 11, 10,  9,  8 >>,
      <<  8,  9, 10, 11, 12, 13, 14, 15,  0,  1,  2,  3,  4,  5,  6,  7 >>,
      <<  9,  8, 11, 10, 13, 12, 15, 14,  1,  0,  3,  2,  5,  4,  7,  6 >>,
      << 10, 11,  8,  9, 14, 15, 12, 13,  2,  3,  0,  1,  6,  7,  4,  5 >>,
      << 11, 10,  9,  8, 15, 14, 13, 12,  3,  2,  1,  0,  7,  6,  5,  4 >>,
      << 12, 13, 14, 15,  8,  9, 10, 11,  4,  5,  6,  7,  0,  1,  2,  3 >>,
      << 13, 12, 15, 14,  9,  8, 11, 10,  5,  4,  7,  6,  1,  0,  3,  2 >>,
      << 14, 15, 12, 13, 10, 11,  8,  9,  6,  7,  4,  5,  2,  3,  0,  1 >>,
      << 15, 14, 13, 12, 11, 10,  9,  8,  7,  6,  5,  4,  3,  2,  1,  0 >> >>

\* C operator ^ on two unsigned char values.
XorByte(a, b) ==
    16 * Xor4[(a \div 16) + 1][(b \div 16) + 1] + Xor4[(a % 16) + 1][(b % 16) + 1]

\* Byte-wise ^ of two equally long byte buffers.
XorBytes(x, y) == AsSeq([k \in 1..Len(x) |-> XorByte(x[k], y[k])])

\* memset(buf, 0, n)
Zeros(n) == AsSeq([k \in 1..n |-> 0])

\* The first n elements of s (memcpy of a prefix).
Take(s, n) == SubSeq(s, 1, n)

\* The elements of s after the first n.
Drop(s, n) == SubSeq(s, n + 1, Len(s))

\* utils.c fpe_reverse_bytes: swap bytes[i] and bytes[len-1-i].
fpe_reverse_bytes(bytes) ==
    AsSeq([k \in 1..Len(bytes) |-> bytes[Len(bytes) + 1 - k]])

\* fpe.c fpe_reverse_key: reversed[i] = key[len-1-i] for i < len.
fpe_reverse_key(key, len) == AsSeq([k \in 1..len |-> key[len + 1 - k]])

\* ceildiv of ff1.c / ff3.c / ff3-1.c: (a + b - 1) / b.
ceildiv(a, b) == (a + b - 1) \div b

(***************************************************************************)
(* The block cipher behind EVP_EncryptUpdate.  AES is FIPS-197; the        *)
(* library is linked against it through OpenSSL's EVP interface.           *)
(***************************************************************************)

AES_SBox ==
   << 99, 124, 119, 123, 242, 107, 111, 197,  48,   1, 103,  43, 254, 215, 171, 118,
      202, 130, 201, 125, 250,  89,  71, 240, 173, 212, 162, 175, 156, 164, 114, 192,
      183, 253, 147,  38,  54,  63, 247, 204,  52, 165, 229, 241, 113, 216,  49,  21,
        4, 199,  35, 195,  24, 150,   5, 154,   7,  18, 128, 226, 235,  39, 178, 117,
        9, 131,  44,  26,  27, 110,  90, 160,  82,  59, 214, 179,  41, 227,  47, 132,
       83, 209,   0, 237,  32, 252, 177,  91, 106, 203, 190,  57,  74,  76,  88, 207,
      208, 239, 170, 251,  67,  77,  51, 133,  69, 249,   2, 127,  80,  60, 159, 168,
       81, 163,  64, 143, 146, 157,  56, 245, 188, 182, 218,  33,  16, 255, 243, 210,
      205,  12,  19, 236,  95, 151,  68,  23, 196, 167, 126,  61, 100,  93,  25, 115,
       96, 129,  79, 220,  34,  42, 144, 136,  70, 238, 184,  20, 222,  94,  11, 219,
      224,  50,  58,  10,  73,   6,  36,  92, 194, 211, 172,  98, 145, 149, 228, 121,
      231, 200,  55, 109, 141, 213,  78, 169, 108,  86, 244, 234, 101, 122, 174,   8,
      186, 120,  37,  46,  28, 166, 180, 198, 232, 221, 116,  31,  75, 189, 139, 138,
      112,  62, 181, 102,  72,   3, 246,  14,  97,  53,  87, 185, 134, 193,  29, 158,
      225, 248, 152,  17, 105, 217, 142, 148, 155,  30, 135, 233, 206,  85,  40, 223,
      140, 161, 137,  13, 191, 230,  66, 104,  65, 153,  45,  15, 176,  84, 187,  22 >>

AES_SubByte(a) == AES_SBox[a + 1]

AES_xtime(a) == IF a >= 128 THEN XorByte((2 * a) % 256, 27) ELSE 2 * a

AES_SubWord(w) == AsSeq([k \in 1..4 |-> AES_SubByte(w[k])])

AES_RotWord(w) == << w[2], w[3], w[4], w[1] >>

AES_Rcon == << 1, 2, 4, 8, 16, 32, 64, 128, 27, 54 >>

\* FIPS-197 key expansion: w is the word list built so far, Nk the key
\* length in words, total the number of words wanted.
RECURSIVE AES_ExpandKey(_, _, _)
AES_ExpandKey(w, Nk, total) ==
    IF Len(w) >= total THEN w
    ELSE LET i    == Len(w)
             prev == w[i]
             temp == IF i % Nk = 0
                       THEN LET sw == AES_SubWord(AES_RotWord(prev))
                            IN  << XorByte(sw[1], AES_Rcon[i \div Nk]), sw[2], sw[3], sw[4] >>
                       ELSE IF Nk > 6 /\ i % Nk = 4
                              THEN AES_SubWord(prev)
                              ELSE prev
         IN  AES_ExpandKey(Append(w, XorBytes(w[i - Nk + 1], temp)), Nk, total)

\* The words of an expanded key grouped into n round keys of 16 bytes.
AES_GroupWords(w, n) ==
    AsSeq([r \in 1..n |-> w[4 * r - 3] \o w[4 * r - 2] \o w[4 * r - 1] \o w[4 * r]])

\* The round keys of a 16-, 24- or 32-byte key, each as 16 bytes.
AES_RoundKeys(key) ==
    LET Nk == Len(key) \div 4
    IN  AES_GroupWords(AES_ExpandKey(AsSeq([k \in 1..Nk |-> SubSeq(key, 4 * k - 3, 4 * k)]),
                                     Nk, 4 * (Nk + 7)),
                       Nk + 7)

\* ShiftRows on a 16-byte state stored column by column.
AES_ShiftRows(s) ==
    AsSeq([k \in 1..16 |-> LET r == (k - 1) % 4
                               c == (k - 1) \div 4
                           IN  s[r + 4 * ((c + r) % 4) + 1]])

\* MixColumns on one column a of four bytes.
AES_MixColumn(a) ==
    LET x(k) == AES_xtime(a[k])
    IN  << XorByte(XorByte(x(1), XorByte(x(2), a[2])), XorByte(a[3], a[4])),
           XorByte(XorByte(a[1], x(2)), XorByte(XorByte(x(3), a[3]), a[4])),
           XorByte(XorByte(a[1], a[2]), XorByte(x(3), XorByte(x(4), a[4]))),
           XorByte(XorByte(XorByte(x(1), a[1]), a[2]), XorByte(a[3], x(4))) >>

\* The four columns of a state put together.
AES_Columns(c) == c[1] \o c[2] \o c[3] \o c[4]

\* MixColumns on the four columns of a state.
AES_MixColumns(s) ==
    AES_Columns([c \in 1..4 |-> AES_MixColumn(SubSeq(s, 4 * c - 3, 4 * c))])

AES_SubBytes(s) == AsSeq([k \in 1..16 |-> AES_SubByte(s[k])])

\* Rounds r .. Nr on state s (rk[r + 1] is the key of round r); the last
\* round has no MixColumns.
RECURSIVE AES_Rounds(_, _, _)
AES_Rounds(s, rk, r) ==
    IF ~Evaluated(s) THEN s
    ELSE IF r = Len(rk)
      THEN XorBytes(AES_ShiftRows(AES_SubBytes(s)), rk[r])
      ELSE AES_Rounds(XorBytes(AES_MixColumns(AES_ShiftRows(AES_SubBytes(s))), rk[r]),
                      rk, r + 1)

\* Cipher(in, w) of FIPS-197 on the round keys rk.
AES_Cipher(block, rk) == AES_Rounds(XorBytes(block, rk[1]), rk, 2)

\* One AES block encryption (ECB, no padding) of a 16-byte block.
AES_EncryptBlock(key, block) == AES_Cipher(block, AES_RoundKeys(key))


(***************************************************************************)
(* Program constants                                                       *)
(***************************************************************************)

FPE_ALGO_AES == 0
FPE_ALGO_SM4 == 1
FPE_MODE_FF1 == 0
FPE_MODE_FF3 == 1
FPE_MODE_FF3_1 == 2
FF1_ROUNDS == 10
FF3_ROUNDS == 8
FF3_1_ROUNDS == 8
FF3_BLOCK_SIZE == 16
\* Capacity of the engines' stack arrays A, B, Q, B_bytes, S, y_bytes, temp.
STACK_BUF == 256
\* fpe_validate_radix: the largest radix accepted.
MAX_RADIX == 65536

(***************************************************************************)
(* The cipher adapter (EVP_CIPHER_CTX).  An adapter is                     *)
(*   [cipher |-> name, keyed |-> BOOLEAN, key |-> bytes, freed |-> ...]    *)
(* and a context refers to it by a handle; handle 0 is the NULL pointer.   *)
(***************************************************************************)

NULL == 0

\* A keyed function standing for a block cipher other than AES: every
\* output byte depends on the key and on all sixteen input bytes.
RECURSIVE WeightedSum(_, _)
WeightedSum(s, k) ==
    IF k = 0 THEN 0 ELSE ((2 * k + 1) * s[k] + WeightedSum(s, k - 1)) % 256

Abstract_EncryptBlock(key, block) ==
    LET s == (WeightedSum(block, 16) + 3 * WeightedSum(key, Len(key)) + Len(key)) % 256
    IN  AsSeq([k \in 1..16 |-> (s * (2 * k + 3) + block[k] + 17 * k) % 256])

\* EVP_EncryptUpdate giving a block also on an adapter that was never keyed.
EVP_EncryptUpdate_unkeyed(adapter, block, failNow) ==
    IF failNow
      THEN [ok |-> FALSE, out |-> << >>]
      ELSE [ok |-> TRUE,
            out |-> IF adapter.provider = "aes"
                      THEN AES_EncryptBlock(adapter.key, block)
                      ELSE Abstract_EncryptBlock(adapter.key, block)]

\* EVP_EncryptUpdate(cipher_ctx, out, &outlen, in, 16) in ECB mode: the
\* result is [ok, out]; it fails on an adapter that was never keyed, and
\* when the provider reports an error (failNow).
EVP_EncryptUpdate(adapter, block, failNow) ==
    IF failNow \/ ~adapter.keyed
      THEN [ok |-> FALSE, out |-> << >>]
      ELSE [ok |-> TRUE,
            out |-> IF adapter.provider = "aes"
                      THEN AES_EncryptBlock(adapter.key, block)
                      ELSE Abstract_EncryptBlock(adapter.key, block)]

(***************************************************************************)
(* Numeral codecs (ff1.c, ff3.c, ff3-1.c)                                  *)
(***************************************************************************)

\* Inner loop of num_to_bytes: out = out * radix + carry over the bytes
\* out[j-1] .. out[0], the carry out of the top byte being dropped.
RECURSIVE MulAddBytes(_, _, _, _)
MulAddBytes(out, j, radix, carry) ==
    IF j = 0 THEN out
    ELSE LET tmp == out[j] * radix + carry
         IN  MulAddBytes([out EXCEPT ![j] = tmp % 256], j - 1, radix, tmp \div 256)

\* Outer loop of num_to_bytes from digit index i (1-based) to len.
RECURSIVE NumToBytesFrom(_, _, _, _, _)
NumToBytesFrom(x, i, len, radix, out) ==
    IF i > len THEN out
    ELSE NumToBytesFrom(x, i + 1, len, radix, MulAddBytes(out, Len(out), radix, x[i]))

\* ff1.c num_to_bytes: big-endian out_len-byte value of x[0..len) with x[0]
\* the most significant digit (Horner, modulo 2^(8*out_len)).
num_to_bytes(x, len, radix, out_len) ==
    NumToBytesFrom(x, 1, len, radix, Zeros(out_len))

\* Outer loop of num_to_bytes_rev from digit index i down to 1.
RECURSIVE NumToBytesRevFrom(_, _, _, _)
NumToBytesRevFrom(x, i, radix, out) ==
    IF i < 1 THEN out
    ELSE NumToBytesRevFrom(x, i - 1, radix, MulAddBytes(out, Len(out), radix, x[i]))

\* The reversed encoding that takes the digits in their natural order.
num_to_bytes_rev_natural(x, len, radix, out_len) ==
    NumToBytesFrom(x, 1, len, radix, Zeros(out_len))

\* ff3.c num_to_bytes_rev: as num_to_bytes with x[len-1] the most
\* significant digit.
num_to_bytes_rev(x, len, radix, out_len) ==
    NumToBytesRevFrom(x, len, radix, Zeros(out_len))

\* Inner loop of bytes_to_num: temp = temp / radix from byte j on, with the
\* running remainder; the result is [temp, remainder].
RECURSIVE DivBytes(_, _, _, _)
DivBytes(temp, j, radix, remainder) ==
    IF j > Len(temp) THEN [temp |-> temp, remainder |-> remainder]
    ELSE LET tmp == remainder * 256 + temp[j]
         IN  DivBytes([temp EXCEPT ![j] = (tmp \div radix) % 256], j + 1, radix,
                      tmp % radix)

\* ff1.c bytes_to_num, loop from digit index i down to 1: x[i] is the
\* remainder of temp by radix.
RECURSIVE BytesToNumFrom(_, _, _, _)
BytesToNumFrom(temp, i, radix, x) ==
    IF i < 1 THEN x
    ELSE LET dv == DivBytes(temp, 1, radix, 0)
         IN  BytesToNumFrom(dv.temp, i - 1, radix, [x EXCEPT ![i] = dv.remainder])

\* ff1.c bytes_to_num: the len low digits of the big-endian value, x[len-1]
\* the least significant.
bytes_to_num(bytes, len, radix) ==
    BytesToNumFrom(bytes, len, radix, Zeros(len))

RECURSIVE BytesToNumRevFrom(_, _, _, _, _)
BytesToNumRevFrom(temp, i, len, radix, x) ==
    IF i > len THEN x
    ELSE LET dv == DivBytes(temp, 1, radix, 0)
         IN  BytesToNumRevFrom(dv.temp, i + 1, len, radix, [x EXCEPT ![i] = dv.remainder])

\* ff3.c bytes_to_num_rev: the len low digits, x[0] the least significant.
bytes_to_num_rev(bytes, len, radix) ==
    BytesToNumRevFrom(bytes, 1, len, radix, Zeros(len))

\* Number of bits of a byte value.
RECURSIVE BitsOfByte(_)
BitsOfByte(a) == IF a = 0 THEN 0 ELSE 1 + BitsOfByte(a \div 2)

\* Number of bits of a big-endian byte string.
RECURSIVE BitLen(_, _)
BitLen(bytes, k) ==
    IF k > Len(bytes) THEN 0
    ELSE IF bytes[k] # 0 THEN 8 * (Len(bytes) - k) + BitsOfByte(bytes[k])
    ELSE BitLen(bytes, k + 1)

\* (unsigned int)ceil(n * log2((double)radix)) for radix >= 2 and n >= 1:
\* the least k with 2^k >= radix^n, which is the bit length of radix^n - 1,
\* the n-digit numeral whose digits are all radix - 1.
\* The double arithmetic of the code gives this value for the radixes and
\* lengths of the scenarios.
CeilLog2Pow(radix, n) ==
    BitLen(num_to_bytes(AsSeq([k \in 1..n |-> radix - 1]), n, radix, 3 * n), 1)


(***************************************************************************)
(* Results of an engine call: rc is the C return value and mem the         *)
(* caller's memory after the call.  ub is "none", or names the undefined   *)
(* behaviour the call ran into: "overflow" (a write past the end of a      *)
(* stack array), "null_tweak" (a read through a NULL tweak pointer) or     *)
(* "conversion" (a double outside the range of unsigned int converted to   *)
(* it); rc and mem then say nothing, what the caller sees is chosen from   *)
(* UndefinedOutcomes.                                                      *)
(***************************************************************************)

Returned(rc, mem) == [rc |-> rc, ub |-> "none", mem |-> mem]

Undefined(kind, mem) == [rc |-> 0, ub |-> kind, mem |-> mem]

\* The adapter a context's cipher_ctx points to.
AdapterOf(ctx, evp) == evp[ctx.cipher_ctx]

\* C's % on int operands (truncation toward zero), for n > 0.
CRem(a, n) == IF a >= 0 THEN a % n ELSE -((-a) % n)

\* The two private half buffers and the pointers into them: A and B are
\* the stack arrays, pA names the array pointer pA refers to (pB the other).
CurA(st) == IF st.pA = "A" THEN st.A ELSE st.B

CurB(st) == IF st.pA = "A" THEN st.B ELSE st.A

\* *pA = val (all m digits stored through pA).
StoreA(st, val) == IF st.pA = "A" THEN [st EXCEPT !.A = val] ELSE [st EXCEPT !.B = val]

\* swap_ptr = pA; pA = pB; pB = swap_ptr
SwapPtrs(st) == [st EXCEPT !.pA = IF st.pA = "A" THEN "B" ELSE "A"]

\* The halves loaded after the output buffer has been cleared:
\* memset(out, 0, len) placed before the two memcpy from in.
LoadHalves_after_clear(mem, inp, outp, u, v) ==
    LET cleared == [mem EXCEPT ![outp] = Zeros(Len(mem[outp]))]
    IN  [A |-> SubSeq(cleared[inp], 1, u), B |-> SubSeq(cleared[inp], u + 1, u + v),
         pA |-> "A"]

\* memcpy(A, in, u); memcpy(B, in + u, v); pA = A; pB = B
LoadHalves(mem, inp, outp, u, v) ==
    [A |-> SubSeq(mem[inp], 1, u), B |-> SubSeq(mem[inp], u + 1, u + v), pA |-> "A"]

\* memcpy(out, pA, u); memcpy(out + u, pB, v)
StoreHalves(mem, outp, st, u, v) ==
    [mem EXCEPT ![outp] = SubSeq(CurA(st), 1, u) \o SubSeq(CurB(st), 1, v)
                            \o SubSeq(mem[outp], u + v + 1, Len(mem[outp]))]

(***************************************************************************)
(* FF1 engine (ff1.c)                                                      *)
(***************************************************************************)

\* b = ceildiv((unsigned int)ceil(v * log2(radix)), 8)
ff1_b(radix, v) == ceildiv(CeilLog2Pow(radix, v), 8)

\* d = 4 * ceildiv(b, 4) + 4
ff1_d(b) == 4 * ceildiv(b, 4) + 4

\* The fixed block P = [1][2][1][radix, 3 bytes][10][u mod 256][len][tweak_len].
ff1_P(radix, u, len, tweak_len) ==
    << 1, 2, 1,
       (radix \div 65536) % 256, (radix \div 256) % 256, radix % 256,
       10, u % 256,
       (len \div 16777216) % 256, (len \div 65536) % 256, (len \div 256) % 256, len % 256,
       (tweak_len \div 16777216) % 256, (tweak_len \div 65536) % 256,
       (tweak_len \div 256) % 256, tweak_len % 256 >>

\* padding_len with the sign of pad_amount lost.
ff1_padding_len_unsigned(tweak_len, b) == (tweak_len + b + 1) % 16

\* padding_len = ((pad_amount % 16) + 16) % 16 with
\* pad_amount = -(int)tweak_len - (int)b - 1
ff1_padding_len(tweak_len, b) == (CRem(0 - tweak_len - b - 1, 16) + 16) % 16

\* Q = tweak || 0^padding_len || [i] || num_to_bytes(pB, other_len, radix, b)
ff1_Q(tweak, b, i, B, other_len, radix) ==
    tweak.bytes \o Zeros(ff1_padding_len(tweak.len, b)) \o << i % 256 >>
      \o num_to_bytes(B, other_len, radix, b)

\* Q_len as the round code accumulates it.
ff1_Q_len(tweak_len, b) == tweak_len + ff1_padding_len(tweak_len, b) + 1 + b

RECURSIVE ff1_cbc_mac(_, _, _, _, _, _, _)
\* What follows the EVP_EncryptUpdate call for block i, its result being e.
ff1_cbc_mac_next(adapter, Q, i, num_q_blocks, e, call, failAt) ==
    IF ~e.ok THEN [ok |-> FALSE, R |-> << >>]
    ELSE ff1_cbc_mac(adapter, Q, i + 1, num_q_blocks, e.out, call + 1, failAt)

\* CBC-MAC loop of ff1_prf over the blocks i .. num_q_blocks-1 of Q; call
\* is the number of the EVP_EncryptUpdate call made for block i.
ff1_cbc_mac(adapter, Q, i, num_q_blocks, R, call, failAt) ==
    IF i >= num_q_blocks THEN [ok |-> TRUE, R |-> R]
    ELSE ff1_cbc_mac_next(adapter, Q, i, num_q_blocks,
                          EVP_EncryptUpdate(adapter,
                                            XorBytes(SubSeq(Q, 16 * i + 1, 16 * i + 16), R),
                                            failAt = call),
                          call, failAt)

RECURSIVE ff1_extend(_, _, _, _, _, _, _, _)
\* What follows the EVP_EncryptUpdate call for extra block j, its result
\* being e: copy_len bytes of SS are appended to S.
ff1_extend_next(adapter, R, j, num_extra_blocks, S, S_len, call, failAt, e) ==
    IF ~e.ok THEN [rc |-> -1, S |-> << >>]
    ELSE ff1_extend(adapter, R, j + 1, num_extra_blocks,
                    S \o Take(e.out, IF j = num_extra_blocks THEN S_len - j * 16 ELSE 16),
                    S_len, call + 1, failAt)

\* Counter-mode extension of ff1_prf for blocks j .. num_extra_blocks.
ff1_extend(adapter, R, j, num_extra_blocks, S, S_len, call, failAt) ==
    IF j > num_extra_blocks THEN [rc |-> 0, S |-> S]
    ELSE ff1_extend_next(adapter, R, j, num_extra_blocks, S, S_len, call, failAt,
                         EVP_EncryptUpdate(adapter,
                                           XorBytes(Zeros(12) \o << (j \div 16777216) % 256,
                                                                    (j \div 65536) % 256,
                                                                    (j \div 256) % 256,
                                                                    j % 256 >>,
                                                    R),
                                           failAt = call))

\* Number of EVP_EncryptUpdate calls of one successful ff1_prf call.
ff1_prf_calls(Q_len, S_len) ==
    1 + (Q_len \div 16) + (IF S_len <= 16 THEN 0 ELSE ceildiv(S_len, 16) - 1)

\* Step 3 of ff1_prf: S from the CBC-MAC result mac = [ok, R].
ff1_prf_output(adapter, mac, num_q_blocks, S_len, failAt) ==
    IF ~mac.ok THEN [rc |-> -1, S |-> << >>]
    ELSE IF S_len <= 16 THEN [rc |-> 0, S |-> Take(mac.R, S_len)]
    ELSE ff1_extend(adapter, mac.R, 1, ceildiv(S_len, 16) - 1, mac.R, S_len,
                    2 + num_q_blocks, failAt)

\* Steps 1 and 2 of ff1_prf on the adapter: R = E(P), then the CBC-MAC.
ff1_prf_mac(adapter, P, Q, num_q_blocks, e0, failAt) ==
    IF ~e0.ok THEN [ok |-> FALSE, R |-> << >>]
    ELSE ff1_cbc_mac(adapter, Q, 0, num_q_blocks, e0.out, 2, failAt)

\* ff1_prf: S = first S_len bytes of R || E(R ^ [1]) || ..., R the CBC-MAC
\* of P || Q.  failAt numbers the EVP_EncryptUpdate call of this invocation
\* that reports an error (none when it is outside 1..ff1_prf_calls).
ff1_prf(ctx, evp, P, P_len, Q, Q_len, S_len, failAt) ==
    IF ctx.cipher_ctx = NULL THEN [rc |-> -1, S |-> << >>]
    ELSE IF P_len # 16 THEN [rc |-> -1, S |-> << >>]
    ELSE ff1_prf_output(AdapterOf(ctx, evp),
                        ff1_prf_mac(AdapterOf(ctx, evp), P, Q, Q_len \div 16,
                                    EVP_EncryptUpdate(AdapterOf(ctx, evp), P, failAt = 1),
                                    failAt),
                        Q_len \div 16, S_len, failAt)

\* The addition without the carry from one digit to the next.
ff1_add_no_carry(a, y, j, carry, radix) ==
    [k \in 1..Len(a) |-> IF k <= j THEN (a[k] + y[k]) % radix ELSE a[k]]

\* pA[j] = (pA[j] + y_num[j] + carry) % radix for j = m-1 .. 0 (FF1 order:
\* the last digit is the least significant), the final carry dropped.
RECURSIVE ff1_add(_, _, _, _, _)
ff1_add(a, y, j, carry, radix) ==
    IF j < 1 THEN a
    ELSE LET sum == a[j] + y[j] + carry
         IN  ff1_add([a EXCEPT ![j] = sum % radix], y, j - 1, sum \div radix, radix)

\* pA[j] = pA[j] - y_num[j] - borrow, plus radix when negative, j = m-1 .. 0.
RECURSIVE ff1_sub(_, _, _, _, _)
ff1_sub(a, y, j, borrow, radix) ==
    IF j < 1 THEN a
    ELSE LET diff == a[j] - y[j] - borrow
         IN  IF diff < 0
               THEN ff1_sub([a EXCEPT ![j] = diff + radix], y, j - 1, 1, radix)
               ELSE ff1_sub([a EXCEPT ![j] = diff], y, j - 1, 0, radix)

\* The end of a round: S = prf.S converted to m digits and added to
\* (encrypt) or subtracted from (decrypt) the digits pA points to.
ff1_round_apply(prf, st, m, d, radix, encrypting) ==
    IF prf.rc # 0 THEN [rc |-> -1, ub |-> "none", st |-> st]
    ELSE IF d > STACK_BUF THEN [rc |-> 0, ub |-> "overflow", st |-> st]
    ELSE [rc |-> 0, ub |-> "none",
          st |-> StoreA(st, IF encrypting
                              THEN ff1_add(CurA(st), bytes_to_num(prf.S, m, radix), m, 0, radix)
                              ELSE ff1_sub(CurA(st), bytes_to_num(prf.S, m, radix), m, 0,
                                           radix))]

\* The body of one FF1 round on the halves pA and pB point to: build Q,
\* run the PRF, convert S to m digits and add (encrypt) or subtract
\* (decrypt) them into *pA.  Result: [rc, ub, st].
ff1_round(ctx, evp, st, i, len, u, v, b, d, P, tweak, encrypting, failAt) ==
    LET radix     == ctx.radix
        m         == IF i % 2 = 1 THEN v ELSE u
        other_len == len - m
        Q_len     == ff1_Q_len(tweak.len, b)
    IN  IF tweak.len > 0 /\ tweak.null THEN [rc |-> 0, ub |-> "null_tweak", st |-> st]
        ELSE IF Q_len > STACK_BUF \/ b > STACK_BUF
          THEN [rc |-> 0, ub |-> "overflow", st |-> st]
        ELSE ff1_round_apply(ff1_prf(ctx, evp, P, 16,
                                     ff1_Q(tweak, b, i, CurB(st), other_len, radix),
                                     Q_len, d, failAt),
                             st, m, d, radix, encrypting)

RECURSIVE ff1_encrypt_rounds(_, _, _, _, _, _, _, _, _, _, _, _, _)
\* What follows round i, r being the result of its body.
ff1_encrypt_next(ctx, evp, r, i, len, u, v, b, d, P, tweak, calls, fail) ==
    IF r.ub # "none" \/ r.rc # 0 THEN r
    ELSE ff1_encrypt_rounds(ctx, evp, SwapPtrs(r.st), i + 1, len, u, v, b, d, P, tweak,
                            calls, fail)

\* The encryption loop for rounds i .. FF1_ROUNDS-1: round body, then swap.
\* calls is the number of EVP_EncryptUpdate calls of one round.
ff1_encrypt_rounds(ctx, evp, st, i, len, u, v, b, d, P, tweak, calls, fail) ==
    IF i >= FF1_ROUNDS THEN [rc |-> 0, ub |-> "none", st |-> st]
    ELSE ff1_encrypt_next(ctx, evp,
                          ff1_round(ctx, evp, st, i, len, u, v, b, d, P, tweak, TRUE,
                                    fail - i * calls),
                          i, len, u, v, b, d, P, tweak, calls, fail)

RECURSIVE ff1_decrypt_rounds(_, _, _, _, _, _, _, _, _, _, _, _, _)
\* What follows round i, r being the result of its body.
ff1_decrypt_next(ctx, evp, r, i, len, u, v, b, d, P, tweak, calls, fail) ==
    IF r.ub # "none" \/ r.rc # 0 THEN r
    ELSE ff1_decrypt_rounds(ctx, evp, r.st, i - 1, len, u, v, b, d, P, tweak, calls, fail)

\* The decryption loop for rounds i .. 0: swap, then round body.
ff1_decrypt_rounds(ctx, evp, st, i, len, u, v, b, d, P, tweak, calls, fail) ==
    IF i < 0 THEN [rc |-> 0, ub |-> "none", st |-> st]
    ELSE ff1_decrypt_next(ctx, evp,
                          ff1_round(ctx, evp, SwapPtrs(st), i, len, u, v, b, d, P, tweak,
                                    FALSE, fail - (FF1_ROUNDS - 1 - i) * calls),
                          i, len, u, v, b, d, P, tweak, calls, fail)

\* The end of ff1_encrypt / ff1_decrypt with the halves stored into out
\* before the result of the rounds is looked at.
ff1_output_store_first(r, mem, outp, u, v) ==
    IF r.ub # "none" THEN Undefined(r.ub, mem)
    ELSE Returned(r.rc, StoreHalves(mem, outp, r.st, u, v))

\* The end of ff1_encrypt / ff1_decrypt, r being the result of the rounds:
\* return -1 from the round whose PRF failed, or the two memcpy to out and
\* return 0.
ff1_output(r, mem, outp, u, v) ==
    IF r.ub # "none" THEN Undefined(r.ub, mem)
    ELSE IF r.rc # 0 THEN Returned(-1, mem)
    ELSE Returned(0, StoreHalves(mem, outp, r.st, u, v))

\* b, d and P, then the ten rounds on the halves st.
ff1_rounds(ctx, evp, st, len, u, v, b, tweak, fail, encrypting) ==
    LET d     == ff1_d(b)
        P     == ff1_P(ctx.radix, u, len, tweak.len)
        calls == ff1_prf_calls(ff1_Q_len(tweak.len, b), d)
    IN  IF encrypting
          THEN ff1_encrypt_rounds(ctx, evp, st, 0, len, u, v, b, d, P, tweak, calls, fail)
          ELSE ff1_decrypt_rounds(ctx, evp, st, FF1_ROUNDS - 1, len, u, v, b, d, P, tweak,
                                  calls, fail)

\* ff1_encrypt / ff1_decrypt.  fail numbers the EVP_EncryptUpdate call of
\* this invocation at which the provider reports an error (0: none).
ff1_crypt(ctx, evp, mem, inp, outp, len, tweak, fail, encrypting) ==
    IF inp = "NULL" \/ outp = "NULL" THEN Returned(-1, mem)
    ELSE IF len < 2 THEN Returned(-1, mem)
    ELSE IF len > STACK_BUF THEN Returned(-1, mem)
    ELSE IF ctx.radix = 0 THEN Undefined("conversion", mem)
    ELSE LET u == len \div 2
             v == len - u
         IN  ff1_output(ff1_rounds(ctx, evp, LoadHalves(mem, inp, outp, u, v), len, u, v,
                                   ff1_b(ctx.radix, v), tweak, fail, encrypting),
                        mem, outp, u, v)

ff1_encrypt(ctx, evp, mem, inp, outp, len, tweak, fail) ==
    ff1_crypt(ctx, evp, mem, inp, outp, len, tweak, fail, TRUE)

ff1_decrypt(ctx, evp, mem, inp, outp, len, tweak, fail) ==
    ff1_crypt(ctx, evp, mem, inp, outp, len, tweak, fail, FALSE)

(***************************************************************************)
(* FF3 and FF3-1 engines (ff3.c, ff3-1.c)                                  *)
(***************************************************************************)

\* b = ceildiv((unsigned int)ceil(B_len * log2(radix)), 8); if (b > 12) b = 12
ff3_b(radix, B_len) ==
    LET b == ceildiv(CeilLog2Pow(radix, B_len), 8) IN IF b > 12 THEN 12 ELSE b

\* The block a round encrypts, before the byte reversal:
\* T[0] T[1] T[2] (T[3] ^ round) || 0 .. 0 || num_to_bytes_rev(B) in b bytes.
ff3_plaintext(T, round, B, B_len, radix) ==
    LET b == ff3_b(radix, B_len)
    IN  << T[1], T[2], T[3], XorByte(T[4], round % 256) >>
          \o Zeros(FF3_BLOCK_SIZE - 4 - b) \o num_to_bytes_rev(B, B_len, radix, b)

\* The end of a round with the ciphertext copied to W as the cipher gave it.
ff3_round_W_as_given(e) ==
    IF ~e.ok THEN [rc |-> -1, W |-> << >>] ELSE [rc |-> 0, W |-> e.out]

\* The end of ff3_round_encrypt / ff3_1_round_encrypt, e being the result of
\* EVP_EncryptUpdate: the ciphertext is reversed and copied to W.
ff3_round_W(e) ==
    IF ~e.ok THEN [rc |-> -1, W |-> << >>] ELSE [rc |-> 0, W |-> fpe_reverse_bytes(e.out)]

\* ff3_round_encrypt: W = REV(CIPH(REV(plaintext))); result [rc, W].
ff3_round_encrypt(ctx, evp, T, round, B, B_len, radix, failNow) ==
    IF ctx.cipher_ctx = NULL THEN [rc |-> -1, W |-> << >>]
    ELSE ff3_round_W(EVP_EncryptUpdate(AdapterOf(ctx, evp),
                                       fpe_reverse_bytes(ff3_plaintext(T, round, B, B_len,
                                                                       radix)),
                                       failNow))

\* ff3_1_round_encrypt (ff3-1.c): the same steps as ff3_round_encrypt.
ff3_1_round_encrypt(ctx, evp, T, round, B, B_len, radix, failNow) ==
    IF ctx.cipher_ctx = NULL THEN [rc |-> -1, W |-> << >>]
    ELSE ff3_round_W(EVP_EncryptUpdate(AdapterOf(ctx, evp),
                                       fpe_reverse_bytes(ff3_plaintext(T, round, B, B_len,
                                                                       radix)),
                                       failNow))

\* FF3 tweak halves: Tl = tweak[0..3] when tweak_len >= 4, Tr = tweak[4..7]
\* when tweak_len >= 8, tweak[4..6] and a zero byte when tweak_len = 7.
ff3_Tl(tweak) == IF tweak.len >= 4 THEN Take(tweak.bytes, 4) ELSE Zeros(4)

ff3_Tr(tweak) ==
    IF tweak.len >= 8 THEN SubSeq(tweak.bytes, 5, 8)
    ELSE IF tweak.len = 7 THEN SubSeq(tweak.bytes, 5, 7) \o << 0 >>
    ELSE Zeros(4)

\* FF3-1 tweak halves: Tl = t0 t1 t2 (t3 & 0xF0), Tr = (t3 & 0x0F) t4 t5 t6
\* when tweak_len >= 7.
ff3_1_Tl(tweak) ==
    IF tweak.len >= 7
      THEN << tweak.bytes[1], tweak.bytes[2], tweak.bytes[3], 16 * (tweak.bytes[4] \div 16) >>
      ELSE Zeros(4)

\* The right half taken from tweak[5..7] of an 8-byte tweak.
ff3_1_Tr_eighth(tweak) ==
    IF tweak.len >= 8
      THEN << tweak.bytes[4] % 16, tweak.bytes[6], tweak.bytes[7], tweak.bytes[8] >>
    ELSE IF tweak.len = 7
      THEN << tweak.bytes[4] % 16, tweak.bytes[5], tweak.bytes[6], tweak.bytes[7] >>
    ELSE Zeros(4)

ff3_1_Tr(tweak) ==
    IF tweak.len >= 7
      THEN << tweak.bytes[4] % 16, tweak.bytes[5], tweak.bytes[6], tweak.bytes[7] >>
      ELSE Zeros(4)

\* pA[j] = (pA[j] + y[j] + carry) % radix for j = 0 .. m-1 (FF3 order: the
\* first digit is the least significant), the final carry dropped.
RECURSIVE ff3_add(_, _, _, _, _, _)
ff3_add(a, y, j, m, carry, radix) ==
    IF j > m THEN a
    ELSE LET sum == a[j] + y[j] + carry
         IN  ff3_add([a EXCEPT ![j] = sum % radix], y, j + 1, m, sum \div radix, radix)

\* pA[j] = pA[j] - y[j] - borrow, plus radix when negative, j = 0 .. m-1.
RECURSIVE ff3_sub(_, _, _, _, _, _)
ff3_sub(a, y, j, m, borrow, radix) ==
    IF j > m THEN a
    ELSE LET diff == a[j] - y[j] - borrow
         IN  IF diff < 0
               THEN ff3_sub([a EXCEPT ![j] = diff + radix], y, j + 1, m, 1, radix)
               ELSE ff3_sub([a EXCEPT ![j] = diff], y, j + 1, m, 0, radix)

\* The end of a round: W = w.W converted to m digits and added to (encrypt)
\* or subtracted from (decrypt) the digits pA points to.
ff3_round_apply(w, st, m, radix, encrypting) ==
    IF w.rc # 0 THEN [rc |-> -1, st |-> st]
    ELSE [rc |-> 0,
          st |-> StoreA(st, IF encrypting
                              THEN ff3_add(CurA(st), bytes_to_num_rev(w.W, m, radix), 1, m, 0,
                                           radix)
                              ELSE ff3_sub(CurA(st), bytes_to_num_rev(w.W, m, radix), 1, m, 0,
                                           radix))]

\* The body of one FF3 / FF3-1 round on the halves pA and pB point to.
\* Result: [rc, st].
ff3_round(ctx, evp, st, i, len, u, v, Tl, Tr, encrypting, failNow, mode) ==
    LET radix     == ctx.radix
        T         == IF i % 2 = 1 THEN Tl ELSE Tr
        m         == IF i % 2 = 1 THEN v ELSE u
        other_len == len - m
    IN  ff3_round_apply(IF mode = FPE_MODE_FF3
                          THEN ff3_round_encrypt(ctx, evp, T, i, CurB(st), other_len, radix,
                                                 failNow)
                          ELSE ff3_1_round_encrypt(ctx, evp, T, i, CurB(st), other_len, radix,
                                                   failNow),
                        st, m, radix, encrypting)

RECURSIVE ff3_encrypt_rounds(_, _, _, _, _, _, _, _, _, _, _)
\* What follows round i, r being the result of its body.
ff3_encrypt_next(ctx, evp, r, i, len, u, v, Tl, Tr, fail, mode) ==
    IF r.rc # 0 THEN r
    ELSE ff3_encrypt_rounds(ctx, evp, SwapPtrs(r.st), i + 1, len, u, v, Tl, Tr, fail, mode)

\* The encryption loop for rounds i .. 7: round body, then swap.  fail is
\* the number of the EVP_EncryptUpdate call (one a round) that fails.
ff3_encrypt_rounds(ctx, evp, st, i, len, u, v, Tl, Tr, fail, mode) ==
    IF i >= FF3_ROUNDS THEN [rc |-> 0, st |-> st]
    ELSE ff3_encrypt_next(ctx, evp,
                          ff3_round(ctx, evp, st, i, len, u, v, Tl, Tr, TRUE, fail = i + 1,
                                    mode),
                          i, len, u, v, Tl, Tr, fail, mode)

RECURSIVE ff3_decrypt_rounds(_, _, _, _, _, _, _, _, _, _, _)
\* What follows round i, r being the result of its body.
ff3_decrypt_next(ctx, evp, r, i, len, u, v, Tl, Tr, fail, mode) ==
    IF r.rc # 0 THEN r
    ELSE ff3_decrypt_rounds(ctx, evp, r.st, i - 1, len, u, v, Tl, Tr, fail, mode)

\* The decryption loop for rounds i .. 0: swap, then round body.
ff3_decrypt_rounds(ctx, evp, st, i, len, u, v, Tl, Tr, fail, mode) ==
    IF i < 0 THEN [rc |-> 0, st |-> st]
    ELSE ff3_decrypt_next(ctx, evp,
                          ff3_round(ctx, evp, SwapPtrs(st), i, len, u, v, Tl, Tr, FALSE,
                                    fail = FF3_ROUNDS - i, mode),
                          i, len, u, v, Tl, Tr, fail, mode)

\* The end of the FF3 / FF3-1 engines, r being the result of the rounds:
\* return -1 from the round whose cipher call failed, or the two memcpy to
\* out and return 0.
ff3_output(r, mem, outp, u, v) ==
    IF r.rc # 0 THEN Returned(-1, mem)
    ELSE Returned(0, StoreHalves(mem, outp, r.st, u, v))

\* The tweak halves of the mode, then the eight rounds on the halves st.
ff3_rounds(ctx, evp, st, len, u, v, tweak, fail, encrypting, mode) ==
    LET Tl == IF mode = FPE_MODE_FF3 THEN ff3_Tl(tweak) ELSE ff3_1_Tl(tweak)
        Tr == IF mode = FPE_MODE_FF3 THEN ff3_Tr(tweak) ELSE ff3_1_Tr(tweak)
    IN  IF encrypting
          THEN ff3_encrypt_rounds(ctx, evp, st, 0, len, u, v, Tl, Tr, fail, mode)
          ELSE ff3_decrypt_rounds(ctx, evp, st, FF3_ROUNDS - 1, len, u, v, Tl, Tr, fail, mode)

\* The FF3 / FF3-1 engines with the lower length bound off by one
\* (len < 1 for len < 2).
ff3_crypt_min_one(ctx, evp, mem, inp, outp, len, tweak, fail, encrypting, mode) ==
    IF inp = "NULL" \/ outp = "NULL" THEN Returned(-1, mem)
    ELSE IF len < 1 \/ len > STACK_BUF THEN Returned(-1, mem)
    ELSE IF tweak.len # 8 /\ tweak.len # 7 /\ tweak.len # 0 THEN Returned(-1, mem)
    ELSE IF tweak.len > 0 /\ tweak.null THEN Undefined("null_tweak", mem)
    ELSE IF ctx.radix = 0 THEN Undefined("conversion", mem)
    ELSE LET u == (len + 1) \div 2
             v == len - u
         IN  ff3_output(ff3_rounds(ctx, evp, LoadHalves(mem, inp, outp, u, v), len, u, v,
                                   tweak, fail, encrypting, mode),
                        mem, outp, u, v)

\* The part ff3_encrypt, ff3_decrypt, ff3_1_encrypt and ff3_1_decrypt share:
\* argument checks, split with u the larger half, rounds, output.
ff3_crypt(ctx, evp, mem, inp, outp, len, tweak, fail, encrypting, mode) ==
    IF inp = "NULL" \/ outp = "NULL" THEN Returned(-1, mem)
    ELSE IF len < 2 \/ len > STACK_BUF THEN Returned(-1, mem)
    ELSE IF tweak.len # 8 /\ tweak.len # 7 /\ tweak.len # 0 THEN Returned(-1, mem)
    ELSE IF tweak.len > 0 /\ tweak.null THEN Undefined("null_tweak", mem)
    ELSE IF ctx.radix = 0 THEN Undefined("conversion", mem)
    ELSE LET u == (len + 1) \div 2
             v == len - u
         IN  ff3_output(ff3_rounds(ctx, evp, LoadHalves(mem, inp, outp, u, v), len, u, v,
                                   tweak, fail, encrypting, mode),
                        mem, outp, u, v)

ff3_encrypt(ctx, evp, mem, inp, outp, len, tweak, fail) ==
    ff3_crypt(ctx, evp, mem, inp, outp, len, tweak, fail, TRUE, FPE_MODE_FF3)

ff3_decrypt(ctx, evp, mem, inp, outp, len, tweak, fail) ==
    ff3_crypt(ctx, evp, mem, inp, outp, len, tweak, fail, FALSE, FPE_MODE_FF3)

ff3_1_encrypt(ctx, evp, mem, inp, outp, len, tweak, fail) ==
    ff3_crypt(ctx, evp, mem, inp, outp, len, tweak, fail, TRUE, FPE_MODE_FF3_1)

ff3_1_decrypt(ctx, evp, mem, inp, outp, len, tweak, fail) ==
    ff3_crypt(ctx, evp, mem, inp, outp, len, tweak, fail, FALSE, FPE_MODE_FF3_1)

(***************************************************************************)
(* Validation helpers (utils.c)                                            *)
(***************************************************************************)

\* The radix check with the upper bound off by one.
fpe_validate_radix_loose(radix) == IF radix < 2 \/ radix > MAX_RADIX + 1 THEN -1 ELSE 0

fpe_validate_radix(radix) == IF radix < 2 \/ radix > MAX_RADIX THEN -1 ELSE 0

\* The tweak check with the empty tweak refused in FF3 and FF3-1.
fpe_validate_tweak_nonempty(mode, tweak_len) ==
    CASE mode = FPE_MODE_FF1 -> 0
      [] mode = FPE_MODE_FF3 -> IF tweak_len # 8 /\ tweak_len # 7 THEN -1 ELSE 0
      [] mode = FPE_MODE_FF3_1 -> IF tweak_len # 7 /\ tweak_len # 8 THEN -1 ELSE 0
      [] OTHER -> -1

fpe_validate_tweak(mode, tweak_len) ==
    CASE mode = FPE_MODE_FF1 -> 0
      [] mode = FPE_MODE_FF3 ->
           IF tweak_len # 8 /\ tweak_len # 7 /\ tweak_len # 0 THEN -1 ELSE 0
      [] mode = FPE_MODE_FF3_1 ->
           IF tweak_len # 7 /\ tweak_len # 8 /\ tweak_len # 0 THEN -1 ELSE 0
      [] OTHER -> -1

\* fpe_secure_zero(ptr, len) on a byte array of len bytes.
fpe_secure_zero(len) == Zeros(len)

(***************************************************************************)
(* Context life cycle and the generic interface (fpe.c)                    *)
(*                                                                         *)
(* The context object is the record                                        *)
(*   [mode, algo, radix, key_bits, key, key_len, cipher_ctx, params]       *)
(* with key the 32-byte array, cipher_ctx a handle into the adapter heap   *)
(* and params the union: minlen, then 32 bytes that are reversed_key in    *)
(* the ff3 / ff3_1 view and whose first four are maxlen in the ff1 view.   *)
(***************************************************************************)

\* FPE_CTX_new: calloc gives an all-zero object, cipher_ctx = NULL.
FPE_CTX_new ==
    [mode |-> 0, algo |-> 0, radix |-> 0, key_bits |-> 0, key |-> Zeros(32),
     key_len |-> 0, cipher_ctx |-> NULL,
     params |-> [minlen |-> 0, reversed_key |-> Zeros(32)]]

\* memcpy(dst, src, n) into the front of a byte array.
CopyInto(dst, src, n) == Take(src, n) \o Drop(dst, n)

\* EVP_CIPHER_CTX_new: a fresh adapter, no cipher and no key set.
EVP_CIPHER_CTX_new == [keyed |-> FALSE, key |-> << >>, provider |-> "none", freed |-> FALSE]

\* EVP_EncryptInit_ex(cipher_ctx, cipher, NULL, key, NULL) and
\* EVP_CIPHER_CTX_set_padding(cipher_ctx, 0) on adapter h.
EVP_EncryptInit_ex(evp, h, key, provider) ==
    [evp EXCEPT ![h] = [keyed |-> TRUE, key |-> key, provider |-> provider, freed |-> FALSE]]

\* The block cipher behind an EVP_CIPHER: the AES implementation when the
\* run links it (impl = "aes"), a stand-in keyed function otherwise.
ProviderOf(algo, impl) == IF algo = FPE_ALGO_AES /\ impl = "aes" THEN "aes" ELSE "stub"

\* FPE_CTX_init.  key is [null, bytes]; env is what the cipher library
\* does: "ok", "alloc_fails" (EVP_CIPHER_CTX_new returns NULL) or
\* "keying_fails" (EVP_EncryptInit_ex returns 0); have_sm4 is the build
\* option HAVE_OPENSSL_SM4.  Result: [rc, ctx, evp].
FPE_CTX_init(ctxp, ctx, evp, mode, algo, key, bits, radix, env, have_sm4, impl) ==
    IF ctxp = NULL \/ key.null THEN [rc |-> -1, ctx |-> ctx, evp |-> evp]
    ELSE IF fpe_validate_radix(radix) # 0 THEN [rc |-> -1, ctx |-> ctx, evp |-> evp]
    ELSE IF algo = FPE_ALGO_AES /\ bits # 128 /\ bits # 192 /\ bits # 256
      THEN [rc |-> -1, ctx |-> ctx, evp |-> evp]
    ELSE IF algo = FPE_ALGO_SM4 /\ bits # 128 THEN [rc |-> -1, ctx |-> ctx, evp |-> evp]
    ELSE IF algo # FPE_ALGO_AES /\ algo # FPE_ALGO_SM4
      THEN [rc |-> -1, ctx |-> ctx, evp |-> evp]
    ELSE
      LET key_len == bits \div 8
          c1 == [ctx EXCEPT !.mode = mode, !.algo = algo, !.radix = radix,
                            !.key_bits = bits, !.key_len = key_len,
                            !.key = CopyInto(ctx.key, key.bytes, key_len)]
          h     == Len(evp) + 1
          c2    == [c1 EXCEPT !.cipher_ctx = h]
          evp2  == Append(evp, EVP_CIPHER_CTX_new)
          found == algo = FPE_ALGO_AES \/ (algo = FPE_ALGO_SM4 /\ have_sm4)
          reversed_key == fpe_reverse_key(key.bytes, key_len)
      IN  IF mode = FPE_MODE_FF1 THEN
            IF env = "alloc_fails"
              THEN [rc |-> -1, ctx |-> [c1 EXCEPT !.cipher_ctx = NULL], evp |-> evp]
            ELSE IF ~found THEN [rc |-> -1, ctx |-> c2, evp |-> evp2]
            ELSE IF env = "keying_fails" THEN [rc |-> -1, ctx |-> c2, evp |-> evp2]
            ELSE [rc |-> 0,
                  ctx |-> [c2 EXCEPT !.params.minlen = 2,
                                     !.params.reversed_key =
                                         Zeros(4) \o Drop(c2.params.reversed_key, 4)],
                  evp |-> EVP_EncryptInit_ex(evp2, h, Take(key.bytes, key_len),
                                             ProviderOf(algo, impl))]
          ELSE IF mode = FPE_MODE_FF3 \/ mode = FPE_MODE_FF3_1 THEN
            IF env = "alloc_fails"
              THEN [rc |-> -1, ctx |-> [c1 EXCEPT !.cipher_ctx = NULL], evp |-> evp]
            ELSE IF ~found THEN [rc |-> -1, ctx |-> c2, evp |-> evp2]
            ELSE IF env = "keying_fails" THEN [rc |-> -1, ctx |-> c2, evp |-> evp2]
            ELSE [rc |-> 0,
                  ctx |-> [c2 EXCEPT !.params.minlen = 2,
                                     !.params.reversed_key =
                                         CopyInto(c2.params.reversed_key, reversed_key,
                                                  key_len)],
                  evp |-> EVP_EncryptInit_ex(evp2, h, reversed_key, ProviderOf(algo, impl))]
          ELSE [rc |-> 0, ctx |-> c1, evp |-> evp]

\* EVP_CIPHER_CTX_free on adapter h: the adapter is cleared and released.
EVP_CIPHER_CTX_free(evp, h) ==
    [evp EXCEPT ![h] = [keyed |-> FALSE, key |-> << >>, provider |-> "none", freed |-> TRUE]]

\* FPE_CTX_free that clears only the key_len bytes of the key in use.
FPE_CTX_free_key_len(ctxp, ctx, evp) ==
    IF ctxp = NULL THEN [released |-> FALSE, ctx |-> ctx, evp |-> evp]
    ELSE [released |-> TRUE,
          ctx |-> [ctx EXCEPT !.key = fpe_secure_zero(ctx.key_len) \o Drop(ctx.key, ctx.key_len),
                              !.params = [minlen |-> 0,
                                          reversed_key |-> fpe_secure_zero(32)]],
          evp |-> IF ctx.cipher_ctx # NULL THEN EVP_CIPHER_CTX_free(evp, ctx.cipher_ctx)
                  ELSE evp]

\* FPE_CTX_free.  Result: released says whether free(ctx) was called, ctx
\* is the object as it is handed to free (unchanged for a NULL pointer),
\* evp the adapters.  sizeof(ctx->params) covers minlen and reversed_key.
FPE_CTX_free(ctxp, ctx, evp) ==
    IF ctxp = NULL THEN [released |-> FALSE, ctx |-> ctx, evp |-> evp]
    ELSE [released |-> TRUE,
          ctx |-> [ctx EXCEPT !.key = fpe_secure_zero(32),
                              !.params = [minlen |-> 0,
                                          reversed_key |-> fpe_secure_zero(32)]],
          evp |-> IF ctx.cipher_ctx # NULL THEN EVP_CIPHER_CTX_free(evp, ctx.cipher_ctx)
                  ELSE evp]

\* FPE_encrypt: argument checks, tweak validation, dispatch on ctx->mode.
\* ctxp is the context pointer (NULL or CTX), ctx the object it points to.
FPE_encrypt(ctxp, ctx, evp, mem, inp, outp, len, tweak, fail) ==
    IF ctxp = NULL \/ inp = "NULL" \/ outp = "NULL" THEN Returned(-1, mem)
    ELSE IF fpe_validate_tweak(ctx.mode, tweak.len) # 0 THEN Returned(-1, mem)
    ELSE CASE ctx.mode = FPE_MODE_FF1 -> ff1_encrypt(ctx, evp, mem, inp, outp, len, tweak, fail)
           [] ctx.mode = FPE_MODE_FF3 -> ff3_encrypt(ctx, evp, mem, inp, outp, len, tweak, fail)
           [] ctx.mode = FPE_MODE_FF3_1 ->
                ff3_1_encrypt(ctx, evp, mem, inp, outp, len, tweak, fail)
           [] OTHER -> Returned(-1, mem)

\* FPE_decrypt.
FPE_decrypt(ctxp, ctx, evp, mem, inp, outp, len, tweak, fail) ==
    IF ctxp = NULL \/ inp = "NULL" \/ outp = "NULL" THEN Returned(-1, mem)
    ELSE IF fpe_validate_tweak(ctx.mode, tweak.len) # 0 THEN Returned(-1, mem)
    ELSE CASE ctx.mode = FPE_MODE_FF1 -> ff1_decrypt(ctx, evp, mem, inp, outp, len, tweak, fail)
           [] ctx.mode = FPE_MODE_FF3 -> ff3_decrypt(ctx, evp, mem, inp, outp, len, tweak, fail)
           [] ctx.mode = FPE_MODE_FF3_1 ->
                ff3_1_decrypt(ctx, evp, mem, inp, outp, len, tweak, fail)
           [] OTHER -> Returned(-1, mem)

(***************************************************************************)
(* What a caller sees of a call with undefined behaviour: the process is   *)
(* terminated (a fortified memcpy, a sanitizer or a fault stops it), or    *)
(* the call returns with the output buffer holding whatever the corrupted  *)
(* stack produced, digits >= radix included.  A conversion of -infinity    *)
(* to unsigned int (radix 0) yields 0 on the usual targets, after which    *)
(* the PRF finds no adapter and the call returns -1.                       *)
(***************************************************************************)

\* Contents an output buffer can be left with by a corrupted call.
GarbageDigits(buf, len) ==
    { AsSeq([k \in 1..Len(buf) |-> IF k <= len THEN 0 ELSE buf[k]]),
      AsSeq([k \in 1..Len(buf) |-> IF k <= len THEN MAX_RADIX + k ELSE buf[k]]) }

UndefinedOutcomes(kind, mem, outp, len) ==
    {[outcome |-> "aborted", rc |-> 0, mem |-> mem]}
      \cup (IF kind = "overflow"
              THEN { [outcome |-> "returned", rc |-> 0, mem |-> [mem EXCEPT ![outp] = g]] :
                       g \in GarbageDigits(mem[outp], len) }
              ELSE {})
      \cup (IF kind = "conversion"
              THEN {[outcome |-> "returned", rc |-> -1, mem |-> mem]}
              ELSE {})

\* The outcomes of a call whose engine result is r.
Outcomes(r, outp, len) ==
    IF r.ub = "none" THEN {[outcome |-> "returned", rc |-> r.rc, mem |-> r.mem]}
    ELSE UndefinedOutcomes(r.ub, r.mem, outp, len)

(***************************************************************************)
(* The program and its caller                                              *)
(***************************************************************************)

VARIABLES
    ctx,        \* the FPE_CTX object FPE_CTX_new returned
    evp,        \* the cipher adapters allocated so far (handle = index)
    mem,        \* the caller's digit buffers xb and yb
    last,       \* the call that returned last, with its arguments and result
    ref,        \* an earlier call on the context as it is now, kept for comparison
    have_sm4,   \* the build option HAVE_OPENSSL_SM4
    scenario,   \* which arguments the caller draws from
    threads     \* the worker threads, each with its own context, buffers and
                \* position in the call it is making (none in most scenarios)

vars == << ctx, evp, mem, last, ref, have_sm4, scenario, threads >>

\* The address of the context object.
CTX == 1

\* Largest len for which the caller's buffers hold digits.
MaxLen == 4

\* Adapters the cipher library hands out before allocation is refused.
MaxAdapters == 2

\* Calls that reuse the buffers of the call before (encrypt, then decrypt
\* what it wrote, ...).
MaxChain == 2

\* Calls counted between a call kept for comparison and its repetition.
MaxBetween == 2

NoCall == [op |-> "none", outcome |-> "returned", depth |-> 0]

\* The cipher implementation a scenario links.
ImplOf(sc) == IF sc = "vectors" THEN "aes" ELSE "stub"

\* ------------------------------------------------------------ arguments

KeyBytes(seed) == AsSeq([k \in 1..32 |-> (seed * k + 7 * seed + 3) % 256])

\* NIST SP 800-38G sample key 2B7E151628AED2A6ABF7158809CF4F3C, padded to
\* the 32 bytes a caller's key buffer holds.
NistKey ==
    << 43, 126, 21, 22, 40, 174, 210, 166, 171, 247, 21, 136, 9, 207, 79, 60 >> \o Zeros(16)

TweakOf(n) == [null |-> FALSE, len |-> n, bytes |-> AsSeq([k \in 1..n |-> (37 * k + 11) % 256])]

NullTweak(n) == [null |-> TRUE, len |-> n, bytes |-> << >>]

\* Tweak 39 38 37 36 35 34 33 32 31 30 of the NIST samples.
NistTweak == [null |-> FALSE, len |-> 10, bytes |-> << 57, 56, 55, 54, 53, 52, 51, 50, 49, 48 >>]

\* Digit strings of n digits: two over {0, 1, 2}, one over 0..9, and one
\* with a digit no radix of the scenarios admits.
DigitsA(n) == AsSeq([k \in 1..n |-> (k + 1) % 3])

DigitsB(n) == AsSeq([k \in 1..n |-> (2 * k * k) % 3])

DigitsC(n) == AsSeq([k \in 1..n |-> (7 * k) % 10])

DigitsD(n) == AsSeq([k \in 1..n |-> IF k = 2 THEN 12 ELSE k % 3])

\* Digits of radix MAX_RADIX.
DigitsW(n) == AsSeq([k \in 1..n |-> (7919 * k + 13) % MAX_RADIX])

\* Digits 0 1 2 ... 9 of the NIST samples.
NistDigits == << 0, 1, 2, 3, 4, 5, 6, 7, 8, 9 >>

\* An output buffer before the call: n cells of a value no call computes.
FreshBuffer(n) == AsSeq([k \in 1..n |-> 77])

ValidDigits(d, len, radix) == \A k \in 1..len : d[k] >= 0 /\ d[k] < radix

InitArg(mode, algo, key, bits, radix, env) ==
    [ctxp |-> CTX, mode |-> mode, algo |-> algo, key |-> key, bits |-> bits,
     radix |-> radix, env |-> env]

CallArg(digits, inp, outp, len, tw, fail) ==
    [ctxp |-> CTX, fill |-> TRUE, digits |-> digits, inp |-> inp, outp |-> outp,
     len |-> len, tw |-> tw, fail |-> fail]

\* FPE_CTX_init arguments of a scenario.
InitArgs(sc) ==
    CASE sc = "api" ->
           \* the context is initialised once
           IF ctx = FPE_CTX_new
             THEN { InitArg(mo, FPE_ALGO_AES, [null |-> FALSE, bytes |-> KeyBytes(5)], 128,
                            10, "ok") : mo \in {FPE_MODE_FF1, FPE_MODE_FF3, FPE_MODE_FF3_1} }
             ELSE {}
      [] sc = "init" ->
           \* every combination on the context as FPE_CTX_new made it, a few
           \* re-initialisations afterwards
           (IF ctx = FPE_CTX_new
              THEN { InitArg(mo, al, [null |-> FALSE, bytes |-> KeyBytes(5)], bi, ra, en) :
                       mo \in {FPE_MODE_FF1, FPE_MODE_FF3, FPE_MODE_FF3_1, 3},
                       al \in {FPE_ALGO_AES, FPE_ALGO_SM4, 2},
                       bi \in {64, 128, 192, 256},
                       ra \in {0, 1, 2, MAX_RADIX, MAX_RADIX + 1},
                       en \in {"ok", "alloc_fails", "keying_fails"} }
              ELSE { InitArg(FPE_MODE_FF1, FPE_ALGO_AES,
                             [null |-> FALSE, bytes |-> KeyBytes(9)], 128, 10, "ok"),
                     InitArg(FPE_MODE_FF3, FPE_ALGO_AES,
                             [null |-> FALSE, bytes |-> KeyBytes(9)], 128, 2, "keying_fails"),
                     InitArg(FPE_MODE_FF3_1, FPE_ALGO_AES,
                             [null |-> FALSE, bytes |-> KeyBytes(9)], 192, 10, "alloc_fails"),
                     InitArg(FPE_MODE_FF3, FPE_ALGO_AES,
                             [null |-> FALSE, bytes |-> KeyBytes(9)], 128, 1, "ok") })
           \cup { [InitArg(FPE_MODE_FF1, FPE_ALGO_AES, [null |-> FALSE, bytes |-> KeyBytes(5)],
                           128, 10, "ok") EXCEPT !.ctxp = NULL],
                  InitArg(FPE_MODE_FF1, FPE_ALGO_AES, [null |-> TRUE, bytes |-> << >>],
                          128, 10, "ok") }
      [] sc = "vectors" ->
           { InitArg(mo, FPE_ALGO_AES, [null |-> FALSE, bytes |-> NistKey], 128, ra, "ok") :
               mo \in {FPE_MODE_FF1, FPE_MODE_FF3, FPE_MODE_FF3_1}, ra \in {10} }
      [] sc = "reinit" ->
           \* the context is initialised, then initialised again, each time
           \* with any of the configurations
           { InitArg(mo, FPE_ALGO_AES, [null |-> FALSE, bytes |-> KeyBytes(c[1])], c[2], c[3],
                     "ok") :
               mo \in {FPE_MODE_FF1, FPE_MODE_FF3, FPE_MODE_FF3_1},
               c \in {<< 5, 256, 10 >>, << 9, 128, 3 >>, << 9, 128, 10 >>} }
      [] sc = "wide" ->
           \* the largest radix, the context is initialised once
           IF ctx = FPE_CTX_new
             THEN { InitArg(mo, FPE_ALGO_AES, [null |-> FALSE, bytes |-> KeyBytes(5)], 128,
                            MAX_RADIX, "ok") :
                      mo \in {FPE_MODE_FF1, FPE_MODE_FF3, FPE_MODE_FF3_1} }
             ELSE {}
      [] OTHER ->
           \* the context is initialised once, the calls are made on it
           IF ctx = FPE_CTX_new
             THEN { InitArg(mo, FPE_ALGO_AES, [null |-> FALSE, bytes |-> KeyBytes(5)], 128,
                            10, "ok") : mo \in {FPE_MODE_FF1, FPE_MODE_FF3, FPE_MODE_FF3_1} }
             ELSE {}

\* FPE_encrypt / FPE_decrypt arguments of a scenario, for calls on buffers
\* the caller has just filled.
CallArgs(sc) ==
    CASE sc = "api" ->
           \* well-formed calls, digits in and out of the alphabet, every
           \* kind of tweak, distinct buffers and in place
           { CallArg(d, "xb", outp, len, tw, 0) :
               d \in {DigitsA(MaxLen), DigitsB(MaxLen), DigitsC(MaxLen), DigitsD(MaxLen)},
               outp \in {"xb", "yb"}, len \in 2..MaxLen,
               tw \in {NullTweak(0), TweakOf(0), TweakOf(3), TweakOf(7), TweakOf(8),
                       TweakOf(9), TweakOf(STACK_BUF + 1)} }
           \* the cipher failing at one of its calls
           \cup { CallArg(DigitsA(MaxLen), "xb", outp, MaxLen, tw, fail) :
                    outp \in {"xb", "yb"}, tw \in {TweakOf(0), TweakOf(7)},
                    fail \in {1, 2, 8, 20, 21} }
           \* lengths out of bounds
           \cup { CallArg(DigitsA(MaxLen), "xb", outp, len, tw, 0) :
                    outp \in {"xb", "yb"}, len \in {0, 1, STACK_BUF + 1, STACK_BUF + 2},
                    tw \in {TweakOf(0), TweakOf(7), TweakOf(3)} }
           \* NULL arguments
           \cup { CallArg(DigitsA(MaxLen), "NULL", "yb", MaxLen, TweakOf(0), 0),
                  CallArg(DigitsA(MaxLen), "xb", "NULL", MaxLen, TweakOf(0), 0),
                  [CallArg(DigitsA(MaxLen), "xb", "yb", MaxLen, TweakOf(0), 0)
                     EXCEPT !.ctxp = NULL],
                  CallArg(DigitsA(MaxLen), "xb", "yb", MaxLen, NullTweak(7), 0) }
      [] sc = "init" ->
           { CallArg(DigitsA(MaxLen), "xb", "yb", MaxLen, TweakOf(7), 0) }
      [] sc = "vectors" ->
           { CallArg(NistDigits, "xb", "yb", Len(NistDigits), tw, 0) :
               tw \in {TweakOf(0), NistTweak} }
      [] sc = "reinit" ->
           { CallArg(DigitsA(MaxLen), "xb", "yb", MaxLen, tw, 0) :
               tw \in {TweakOf(0), TweakOf(7)} }
      [] sc = "wide" ->
           \* halves of 6 and of 7 digits, 96 and 112 bits
           { CallArg(DigitsW(n), "xb", "yb", n, tw, 0) :
               n \in {11, 12, 13, 14}, tw \in {TweakOf(7), TweakOf(8)} }
      [] OTHER ->
           { CallArg(DigitsA(MaxLen), "xb", "yb", MaxLen, tw, fail) :
               tw \in {TweakOf(0), TweakOf(7)}, fail \in {0, 3} }

\* Arguments of a call on the buffers as the call before left them: the
\* input is what that call of the opposite direction wrote, length and
\* tweak are the same.
ChainArgs(after) ==
    IF last.op = after /\ last.outcome = "returned" /\ last.rc = 0
         /\ last.depth < MaxChain
      THEN { [ctxp |-> CTX, fill |-> FALSE, digits |-> mem[last.args.outp],
              inp |-> last.args.outp, outp |-> outp, len |-> last.args.len,
              tw |-> last.args.tw, fail |-> 0] : outp \in {"xb", "yb"} }
      ELSE {}

\* ------------------------------------------------------------ actions

InitialMem == [xb |-> FreshBuffer(MaxLen), yb |-> FreshBuffer(MaxLen)]

\* No call kept for comparison.
NoRef == [call |-> NoCall, out |-> InitialMem, since |-> 0]

InitOf(sc) ==
    /\ ctx = FPE_CTX_new
    /\ evp = << >>
    /\ mem = InitialMem
    /\ last = NoCall
    /\ ref = NoRef
    /\ have_sm4 \in (IF sc = "init" THEN BOOLEAN ELSE {FALSE})
    /\ scenario = sc
    /\ threads = << >>

\* The arguments the caller may pass now: any of the scenario on freshly
\* filled buffers, or a call on the buffers the call before wrote.
ArgsNow(after) == IF last.op = "none" THEN CallArgs(scenario) ELSE ChainArgs(after)

\* The caller's memory when the call starts.
MemBefore(a) ==
    IF a.fill THEN [xb |-> a.digits, yb |-> FreshBuffer(Len(a.digits))] ELSE mem

\* The record of a call that ended with outcome o.
CallRecord(op, a, pre, r, o) ==
    [op |-> op, outcome |-> o.outcome, depth |-> IF a.fill THEN 1 ELSE last.depth + 1,
     args |-> a, pre |-> pre, rc |-> o.rc, ub |-> r.ub,
     prev |-> IF a.fill THEN NoCall ELSE last]

\* The comparison call, one more call having returned since it was made.
Aged(r) ==
    IF r.call.op = "none" THEN r
    ELSE [r EXCEPT !.since = IF @ < MaxBetween THEN @ + 1 ELSE @]

\* The comparison call is kept from the calls of scenario "calls" only:
\* either the one kept so far, or the call that has just ended with the
\* memory it left.
RefAfter(rec, after) ==
    IF scenario = "calls"
      THEN {Aged(ref), [call |-> rec, out |-> after, since |-> 0]}
      ELSE {ref}

\* FPE_CTX_init has returned r = [rc, ctx, evp] on arguments a.
InitReturns(a, r) ==
    /\ ctx' = r.ctx
    /\ evp' = r.evp
    /\ last' = [op |-> "init", outcome |-> "returned", depth |-> 0, args |-> a,
                rc |-> r.rc, pre |-> [ctx |-> ctx, evp |-> evp]]
    /\ ref' = IF r.ctx = ctx /\ r.evp = evp THEN ref ELSE NoRef

\* FPE_CTX_init that allocates and keys an adapter only when the context
\* has none: a second initialisation stores the new configuration and keeps
\* the adapter, and the key, of the first.
CtxInit_keep_adapter(a) ==
    /\ last.op = "none"
    /\ Len(evp) < MaxAdapters
    /\ IF ctx.cipher_ctx = NULL
         THEN InitReturns(a, FPE_CTX_init(a.ctxp, ctx, evp, a.mode, a.algo, a.key, a.bits,
                                          a.radix, a.env, have_sm4, ImplOf(scenario)))
         ELSE InitReturns(a, [FPE_CTX_init(a.ctxp, ctx, evp, a.mode, a.algo, a.key, a.bits,
                                           a.radix, a.env, have_sm4, ImplOf(scenario))
                                EXCEPT !.ctx.cipher_ctx = ctx.cipher_ctx])
    /\ UNCHANGED << mem, have_sm4, scenario, threads >>

\* FPE_CTX_init(ctx, mode, algo, key, bits, radix)
CtxInit(a) ==
    /\ last.op = "none"
    /\ Len(evp) < MaxAdapters
    /\ InitReturns(a, FPE_CTX_init(a.ctxp, ctx, evp, a.mode, a.algo, a.key, a.bits, a.radix,
                                   a.env, have_sm4, ImplOf(scenario)))
    /\ UNCHANGED << mem, have_sm4, scenario, threads >>

\* A call op on arguments a and memory pre ends, r being what the function
\* computes: the caller sees one of the outcomes of r.
CallEnds(op, a, pre, r) ==
    /\ \E o \in Outcomes(r, a.outp, a.len) :
         /\ mem' = o.mem
         /\ last' = CallRecord(op, a, pre, r, o)
    /\ ref' \in RefAfter(last', mem')

\* FPE_encrypt on an adapter that keeps chaining state: every call leaves
\* the adapter's key material changed.
Encrypt_chaining(a) ==
    /\ last.outcome = "returned"
    /\ CallEnds("encrypt", a, MemBefore(a),
                FPE_encrypt(a.ctxp, ctx, evp, MemBefore(a), a.inp, a.outp, a.len, a.tw,
                            a.fail))
    /\ evp' = IF ctx.cipher_ctx = NULL THEN evp
              ELSE [evp EXCEPT ![ctx.cipher_ctx].key = fpe_reverse_bytes(@)]
    /\ UNCHANGED << ctx, have_sm4, scenario, threads >>

\* FPE_encrypt(ctx, in, out, len, tweak, tweak_len)
Encrypt(a) ==
    /\ last.outcome = "returned"
    /\ CallEnds("encrypt", a, MemBefore(a),
                FPE_encrypt(a.ctxp, ctx, evp, MemBefore(a), a.inp, a.outp, a.len, a.tw,
                            a.fail))
    /\ UNCHANGED << ctx, evp, have_sm4, scenario, threads >>

\* FPE_decrypt that gives up the cipher after a failure: a call that returns
\* -1 leaves the adapter of the context without its key.
Decrypt_reset_on_failure(a) ==
    /\ last.outcome = "returned"
    /\ CallEnds("decrypt", a, MemBefore(a),
                FPE_decrypt(a.ctxp, ctx, evp, MemBefore(a), a.inp, a.outp, a.len, a.tw,
                            a.fail))
    /\ evp' = IF last'.rc = -1 /\ ctx.cipher_ctx # NULL
                THEN [evp EXCEPT ![ctx.cipher_ctx] = EVP_CIPHER_CTX_new]
                ELSE evp
    /\ UNCHANGED << ctx, have_sm4, scenario, threads >>

\* FPE_decrypt(ctx, in, out, len, tweak, tweak_len)
Decrypt(a) ==
    /\ last.outcome = "returned"
    /\ CallEnds("decrypt", a, MemBefore(a),
                FPE_decrypt(a.ctxp, ctx, evp, MemBefore(a), a.inp, a.outp, a.len, a.tw,
                            a.fail))
    /\ UNCHANGED << ctx, evp, have_sm4, scenario, threads >>

\* The caller is done with the result of the last call and its buffers.
CallerReset ==
    /\ last.op # "none"
    /\ last.outcome = "returned"
    /\ last' = NoCall
    /\ mem' = InitialMem
    /\ UNCHANGED << ctx, evp, ref, have_sm4, scenario, threads >>

\* FPE_CTX_free has returned r = [released, ctx, evp] on pointer p.  Once
\* the object is released the caller makes no further call on it.
FreeReturns(p, r) ==
    /\ ctx' = r.ctx
    /\ evp' = r.evp
    /\ last' = [op |-> "free", outcome |-> IF r.released THEN "released" ELSE "returned",
                depth |-> 0, args |-> [ctxp |-> p], rc |-> 0,
                pre |-> [ctx |-> ctx, evp |-> evp]]

\* FPE_CTX_free(ctx)
CtxFree(p) ==
    /\ last.op = "none"
    /\ FreeReturns(p, FPE_CTX_free(p, ctx, evp))
    /\ UNCHANGED << mem, ref, have_sm4, scenario, threads >>

Next ==
    \/ \E a \in InitArgs(scenario) : CtxInit(a)
    \/ \E a \in ArgsNow("decrypt") : Encrypt(a)
    \/ \E a \in ArgsNow("encrypt") : Decrypt(a)
    \/ \E p \in {NULL, CTX} : CtxFree(p)
    \/ CallerReset

\* The interface under every kind of argument, one key and two radixes.
Spec == InitOf("api") /\ [][Next]_vars

\* FPE_CTX_init under every combination of mode, algorithm, key length,
\* radix and cipher-library outcome.
SpecInit == InitOf("init") /\ [][Next]_vars

\* AES as the cipher, the NIST sample key, digits and tweaks.
SpecVec == InitOf("vectors") /\ [][Next]_vars

\* Sequences of calls on one context, an earlier call kept for comparison.
SpecCalls == InitOf("calls") /\ [][Next]_vars

\* A context initialised twice, with the same or another configuration, and
\* the calls made on it.
SpecReinit == InitOf("reinit") /\ [][Next]_vars

(***************************************************************************)
(* Properties                                                              *)
(***************************************************************************)

\* The context is in the state a successful FPE_CTX_init leaves: a known
\* mode and a keyed adapter.
Initialised ==
    /\ ctx.mode \in {FPE_MODE_FF1, FPE_MODE_FF3, FPE_MODE_FF3_1}
    /\ ctx.cipher_ctx # NULL
    /\ evp[ctx.cipher_ctx].keyed

\* The tweak lengths the specification allows a mode.
TweakLenValid(mode, n) == mode = FPE_MODE_FF1 \/ n \in {0, 7, 8}

\* A call the specification promises to serve: no NULL argument, length in
\* 2..256, a tweak of a length valid for the mode, a working cipher.
WellFormedCall(a) ==
    /\ a.ctxp = CTX /\ a.inp # "NULL" /\ a.outp # "NULL"
    /\ a.len >= 2 /\ a.len <= STACK_BUF
    /\ TweakLenValid(ctx.mode, a.tw.len)
    /\ ~(a.tw.null /\ a.tw.len > 0)
    /\ a.fail = 0

\* The digits call record c read, and the digits it left in its output.
InputOf(c) == Take(c.pre[c.args.inp], c.args.len)

OutputNow(c) == Take(mem[c.args.outp], c.args.len)

\* The last call is a served call on digits of the alphabet.
ServedCall(c) ==
    /\ c.op \in {"encrypt", "decrypt"}
    /\ Initialised
    /\ WellFormedCall(c.args)
    /\ ValidDigits(c.pre[c.args.inp], c.args.len, ctx.radix)

\* The last call decrypted, with the same tweak, what a served encryption
\* had just written.
DecryptedBack ==
    /\ last.op = "decrypt" /\ ~last.args.fill
    /\ last.prev.op = "encrypt" /\ ServedCall(last.prev)

\* C1 (round trip): on an initialised context every encryption of len in
\* 2..256 digits < radix under a tweak of valid length returns 0, and the
\* decryption of its output under the same tweak returns 0 and gives back
\* the original digits.
C1_RoundTrip ==
    /\ (last.op = "encrypt" /\ ServedCall(last))
         => (last.outcome = "returned" /\ last.rc = 0)
    /\ DecryptedBack
         => (last.outcome = "returned" /\ last.rc = 0 /\ OutputNow(last) = InputOf(last.prev))

\* The round trip on the calls that stay within the stack arrays of ff1.c:
\* where no call of the pair has undefined behaviour, it holds.
RoundTripWhereDefined ==
    /\ (last.op = "encrypt" /\ ServedCall(last) /\ last.ub = "none")
         => (last.outcome = "returned" /\ last.rc = 0)
    /\ (DecryptedBack /\ last.prev.ub = "none" /\ last.ub = "none")
         => (last.outcome = "returned" /\ last.rc = 0 /\ OutputNow(last) = InputOf(last.prev))

\* A decryption gave back the digits of a served encryption.
RoundTripReached ==
    /\ DecryptedBack /\ last.ub = "none" /\ last.rc = 0
    /\ OutputNow(last) = InputOf(last.prev)
    /\ InputOf(last) # InputOf(last.prev)

\* The last call is FPE_encrypt of the NIST sample digits 0..9 under tweak
\* tw, FF1 over AES-128 with the NIST sample key, radix 10.
NistCall(tw) ==
    /\ last.op = "encrypt" /\ last.args.fill
    /\ Initialised
    /\ ctx.mode = FPE_MODE_FF1 /\ ctx.algo = FPE_ALGO_AES /\ ctx.key_bits = 128
    /\ ctx.radix = 10
    /\ evp[ctx.cipher_ctx].provider = "aes"
    /\ evp[ctx.cipher_ctx].key = Take(NistKey, 16)
    /\ WellFormedCall(last.args)
    /\ InputOf(last) = NistDigits
    /\ last.args.tw = tw

\* C2 (test vectors): FF1 with AES-128 key 2B7E151628AED2A6ABF7158809CF4F3C
\* and radix 10 encrypts 0123456789 to 2433477484 under the empty tweak and
\* to 6124200773 under tweak 39 38 37 36 35 34 33 32 31 30.
C2_TestVectors ==
    /\ NistCall(TweakOf(0))
         => (last.outcome = "returned" /\ last.rc = 0
             /\ OutputNow(last) = << 2, 4, 3, 3, 4, 7, 7, 4, 8, 4 >>)
    /\ NistCall(NistTweak)
         => (last.outcome = "returned" /\ last.rc = 0
             /\ OutputNow(last) = << 6, 1, 2, 4, 2, 0, 0, 7, 7, 3 >>)

\* The encryption of the sample digits under the sample tweak has returned.
C2_Reached == NistCall(NistTweak) /\ last.rc = 0 /\ OutputNow(last) # InputOf(last)

\* The last call is FPE_encrypt or FPE_decrypt.
IsCall(c) == c.op \in {"encrypt", "decrypt"}

\* C3 (alphabet preservation): whenever FPE_encrypt or FPE_decrypt returns 0
\* on an initialised context and an input whose len digits are all < radix,
\* every one of the len output digits is in [0, radix).
C3_AlphabetPreserved ==
    (/\ IsCall(last) /\ last.outcome = "returned" /\ last.rc = 0
     /\ Initialised
     /\ ValidDigits(last.pre[last.args.inp], last.args.len, ctx.radix))
        => ValidDigits(mem[last.args.outp], last.args.len, ctx.radix)

\* The alphabet is preserved by the calls that stay within the stack arrays
\* of ff1.c.
AlphabetWhereDefined ==
    (/\ IsCall(last) /\ last.outcome = "returned" /\ last.rc = 0
     /\ last.ub = "none"
     /\ Initialised
     /\ ValidDigits(last.pre[last.args.inp], last.args.len, ctx.radix))
        => ValidDigits(mem[last.args.outp], last.args.len, ctx.radix)

\* The buffer of the caller that is not b.
OtherBuffer(b) == IF b = "xb" THEN "yb" ELSE "xb"

\* What call record c would have done on memory pre with its output going
\* to buffer outp.
Redirected(c, outp) ==
    IF c.op = "encrypt"
      THEN FPE_encrypt(c.args.ctxp, ctx, evp, c.pre, c.args.inp, outp, c.args.len,
                       c.args.tw, c.args.fail)
      ELSE FPE_decrypt(c.args.ctxp, ctx, evp, c.pre, c.args.inp, outp, c.args.len,
                       c.args.tw, c.args.fail)

\* The last call had its output buffer equal to its input buffer and
\* behaviour the language defines.
InPlaceCall ==
    /\ IsCall(last) /\ last.outcome = "returned" /\ last.ub = "none"
    /\ last.args.inp # "NULL" /\ last.args.inp = last.args.outp

\* C4 (in-place equivalence): a call of FPE_encrypt or FPE_decrypt whose
\* output buffer is its input buffer returns what the same call with a
\* distinct output buffer returns and leaves in the buffer exactly the
\* digits that call writes to the distinct buffer (none when it fails).
C4_InPlaceEquivalence ==
    InPlaceCall =>
        LET other == OtherBuffer(last.args.inp)
            r     == Redirected(last, other)
        IN  /\ r.ub = "none"
            /\ r.rc = last.rc
            /\ IF last.rc = 0
                 THEN OutputNow(last) = Take(r.mem[other], last.args.len)
                 ELSE mem = last.pre /\ r.mem = last.pre

\* An in-place call on an initialised context has replaced the digits.
C4_Reached ==
    /\ InPlaceCall /\ Initialised /\ last.rc = 0
    /\ OutputNow(last) # InputOf(last)
    /\ ctx.mode = FPE_MODE_FF3_1

\* The last call repeats the call kept for comparison: same operation, same
\* digits, buffers, length, tweak and cipher behaviour.
RepeatsRef ==
    /\ IsCall(last) /\ Initialised
    /\ ref.call.op = last.op
    /\ ref.call.args.len = last.args.len
    /\ ref.call.args.tw = last.args.tw
    /\ ref.call.args.fail = last.args.fail
    /\ ref.call.args.inp = last.args.inp
    /\ ref.call.args.outp = last.args.outp
    /\ InputOf(ref.call) = InputOf(last)

C6_FailClosed ==
    (IsCall(last) /\ last.outcome = "returned" /\ last.rc = -1) => mem = last.pre

\* The cipher failed in the last round of a call on distinct buffers.
C6_Reached ==
    /\ IsCall(last) /\ last.outcome = "returned" /\ last.rc = -1
    /\ Initialised /\ ctx.mode = FPE_MODE_FF1
    /\ last.args.fail = 2 * FF1_ROUNDS
    /\ last.args.inp # last.args.outp

\* C7 (digit validation): FPE_encrypt and FPE_decrypt return -1 when one of
\* the len input digits is >= the context's radix.
C7_DigitValidation ==
    (/\ IsCall(last) /\ last.outcome = "returned"
     /\ Initialised
     /\ last.args.ctxp = CTX /\ last.args.inp # "NULL" /\ last.args.outp # "NULL"
     /\ last.args.len >= 1 /\ last.args.len <= MaxLen
     /\ ~ValidDigits(last.pre[last.args.inp], last.args.len, ctx.radix))
        => last.rc = -1

\* The last call returned, on an initialised context, with no NULL
\* argument, a length in 2..256 and a working cipher.
TweakDecides ==
    /\ IsCall(last) /\ last.outcome = "returned"
    /\ Initialised
    /\ last.args.ctxp = CTX /\ last.args.inp # "NULL" /\ last.args.outp # "NULL"
    /\ last.args.len >= 2 /\ last.args.len <= STACK_BUF
    /\ ~(last.args.tw.null /\ last.args.tw.len > 0)
    /\ last.args.fail = 0

RefusedConfig(a) ==
    \/ a.radix < 2 \/ a.radix > MAX_RADIX
    \/ a.algo = FPE_ALGO_AES /\ a.bits \notin {128, 192, 256}
    \/ a.algo = FPE_ALGO_SM4 /\ a.bits # 128

\* C10 (init validation): FPE_CTX_init returns non-zero and leaves context
\* and adapters as they were whenever radix < 2, radix > 65536 or the key
\* length is not 128/192/256 for AES or not 128 for SM4; with a cipher
\* library that works it returns 0 for AES with 128/192/256 bits and a radix
\* in 2..65536 in each of the three modes.
C10_InitValidation ==
    last.op = "init" =>
        /\ RefusedConfig(last.args)
             => (last.rc # 0 /\ ctx = last.pre.ctx /\ evp = last.pre.evp)
        /\ (/\ last.args.ctxp = CTX /\ ~last.args.key.null
            /\ last.args.algo = FPE_ALGO_AES /\ last.args.bits \in {128, 192, 256}
            /\ last.args.radix >= 2 /\ last.args.radix <= MAX_RADIX
            /\ last.args.mode \in {FPE_MODE_FF1, FPE_MODE_FF3, FPE_MODE_FF3_1}
            /\ last.args.env = "ok")
             => last.rc = 0

\* FPE_CTX_init has refused radix 65537 with everything else in order.
C10_Reached ==
    /\ last.op = "init" /\ last.rc # 0
    /\ last.args.radix = MAX_RADIX + 1
    /\ last.args.algo = FPE_ALGO_AES /\ last.args.bits = 256
    /\ last.args.mode = FPE_MODE_FF3_1 /\ last.args.env = "ok"

\* C11 (init validation of mode): FPE_CTX_init fails, returning -1, for
\* every mode value outside the supported set {FF1, FF3, FF3-1}.
C11_ModeValidation ==
    (/\ last.op = "init"
     /\ last.args.mode \notin {FPE_MODE_FF1, FPE_MODE_FF3, FPE_MODE_FF3_1})
        => last.rc = -1

\* No FPE_CTX_init has set up a cipher on the context: no adapter has been
\* keyed, the context never was in the state a successful initialisation in
\* one of the three modes leaves.
NeverKeyed == \A h \in 1..Len(evp) : ~evp[h].keyed

\* C12 (lifecycle): on a context on which no FPE_CTX_init has succeeded,
\* every FPE_encrypt and FPE_decrypt call returns -1 and writes no output.
C12_Lifecycle ==
    (IsCall(last) /\ last.args.ctxp = CTX /\ NeverKeyed)
        => (last.outcome = "returned" /\ last.rc = -1 /\ mem = last.pre)

\* The calls on such a context whose behaviour the language defines return
\* -1 and write nothing.
LifecycleWhereDefined ==
    (IsCall(last) /\ last.args.ctxp = CTX /\ NeverKeyed /\ last.ub = "none")
        => (last.outcome = "returned" /\ last.rc = -1 /\ mem = last.pre)

\* A step leaves what FPE_encrypt and FPE_decrypt return, and the memory
\* they leave, on arguments a as it was.
SameResults(a) ==
    /\ FPE_encrypt(a.ctxp, ctx', evp', MemBefore(a), a.inp, a.outp, a.len, a.tw, a.fail)
         = FPE_encrypt(a.ctxp, ctx, evp, MemBefore(a), a.inp, a.outp, a.len, a.tw, a.fail)
    /\ FPE_decrypt(a.ctxp, ctx', evp', MemBefore(a), a.inp, a.outp, a.len, a.tw, a.fail)
         = FPE_decrypt(a.ctxp, ctx, evp, MemBefore(a), a.inp, a.outp, a.len, a.tw, a.fail)

FreshInit(a) ==
    FPE_CTX_init(a.ctxp, FPE_CTX_new, << >>, a.mode, a.algo, a.key, a.bits, a.radix, a.env,
                 have_sm4, ImplOf(scenario))

\* FPE_encrypt and FPE_decrypt on arguments a return and write on the
\* context as it is now what they return and write on the context f.ctx with
\* the adapters f.evp.
SameAsOn(f, a) ==
    /\ FPE_encrypt(a.ctxp, ctx, evp, MemBefore(a), a.inp, a.outp, a.len, a.tw, a.fail)
         = FPE_encrypt(a.ctxp, f.ctx, f.evp, MemBefore(a), a.inp, a.outp, a.len, a.tw,
                       a.fail)
    /\ FPE_decrypt(a.ctxp, ctx, evp, MemBefore(a), a.inp, a.outp, a.len, a.tw, a.fail)
         = FPE_decrypt(a.ctxp, f.ctx, f.evp, MemBefore(a), a.inp, a.outp, a.len, a.tw,
                       a.fail)

\* The last call is an FPE_CTX_init that returned 0 on a context a successful
\* FPE_CTX_init had set up before.
Reinitialised ==
    /\ last.op = "init" /\ last.rc = 0
    /\ last.pre.ctx.cipher_ctx # NULL
    /\ last.pre.evp[last.pre.ctx.cipher_ctx].keyed

\* C14 (re-initialisation replaces the configuration): after a successful
\* FPE_CTX_init on a context initialised before, with the same or any other
\* mode, key and radix, every FPE_encrypt and FPE_decrypt call returns and
\* writes what it does on a fresh context initialised with the new
\* arguments only.
C14_ReinitReplaces ==
    Reinitialised => \A a \in CallArgs(scenario) : SameAsOn(FreshInit(last.args), a)

\* A 256-bit FF3 context of radix 10 has been re-initialised as a 128-bit
\* FF1 context of radix 3 under another key, and a call on it returns 0 with
\* digits the context before would not have written.
C14_Reached ==
    /\ Reinitialised
    /\ last.pre.ctx.mode = FPE_MODE_FF3 /\ last.pre.ctx.key_bits = 256
    /\ last.pre.ctx.radix = 10
    /\ ctx.mode = FPE_MODE_FF1 /\ ctx.key_bits = 128 /\ ctx.radix = 3
    /\ \E a \in CallArgs(scenario) :
         /\ FPE_encrypt(a.ctxp, ctx, evp, MemBefore(a), a.inp, a.outp, a.len, a.tw,
                        a.fail).rc = 0
         /\ ~SameAsOn(last.pre, a)

\* The bytes of the context's key array and of its mode-parameter area that
\* the initialisation it holds has not written are zero: the key array
\* holds key_len bytes of the key, the parameter area the reversed key
\* (FF3, FF3-1) or maxlen = 0 (FF1).
OnlyCurrentKeyStored ==
    /\ Drop(ctx.key, ctx.key_len) = Zeros(32 - ctx.key_len)
    /\ IF ctx.mode = FPE_MODE_FF3 \/ ctx.mode = FPE_MODE_FF3_1
         THEN Drop(ctx.params.reversed_key, ctx.key_len) = Zeros(32 - ctx.key_len)
         ELSE ctx.params.reversed_key = Zeros(32)

\* C15 (re-initialisation zeroes old key material): after a successful
\* FPE_CTX_init on an already initialised context, no byte of the previous
\* key or of the previous byte-reversed key remains stored in the context.
C15_OldKeyZeroed == Reinitialised => OnlyCurrentKeyStored

\* C16 (zeroisation on destruction): when FPE_CTX_free hands the context to
\* free, all 32 bytes of the stored key and the whole mode-parameter area
\* are zero, whatever FPE_CTX_init calls the context has seen;
\* FPE_CTX_free(NULL) changes nothing.
C16_FreeZeroes ==
    last.op = "free"
        => IF last.args.ctxp = NULL
             THEN ctx = last.pre.ctx /\ evp = last.pre.evp /\ last.outcome = "returned"
             ELSE /\ last.outcome = "released"
                  /\ ctx.key = Zeros(32)
                  /\ ctx.params = [minlen |-> 0, reversed_key |-> Zeros(32)]

\* A context has been freed that held, after two initialisations, bytes of
\* an earlier key behind the key in use and a reversed key.
C16_Reached ==
    /\ last.op = "free" /\ last.args.ctxp = CTX
    /\ last.pre.ctx.key_len < 32
    /\ \E k \in (last.pre.ctx.key_len + 1)..32 : last.pre.ctx.key[k] # 0
    /\ \E k \in 1..32 : last.pre.ctx.params.reversed_key[k] # 0

\* The last call is an FF1 call that passes the validation of FPE_encrypt /
\* FPE_decrypt and of the engine: initialised FF1 context, no NULL
\* argument, 2 <= len <= 256 (FF1 accepts every tweak length).
ValidatedFF1Call ==
    /\ IsCall(last) /\ Initialised /\ ctx.mode = FPE_MODE_FF1
    /\ last.args.ctxp = CTX /\ last.args.inp # "NULL" /\ last.args.outp # "NULL"
    /\ last.args.len >= 2 /\ last.args.len <= STACK_BUF
    /\ ~(last.args.tw.null /\ last.args.tw.len > 0)

\* b of an FF1 call on len digits: v = len - len / 2 digits in radix.
FF1_b_of(len) == ff1_b(ctx.radix, len - len \div 2)

\* C17 (FF1 intermediates fit their buffers): for every FF1 call that passes
\* validation, b, d = 4 * ceil(b / 4) + 4 and Q_len = tweak_len + padding +
\* 1 + b are at most 256, and the call writes inside the stack arrays Q,
\* B_bytes, S, y_bytes and temp.
C17_BuffersFit ==
    ValidatedFF1Call
        => /\ FF1_b_of(last.args.len) <= STACK_BUF
           /\ ff1_d(FF1_b_of(last.args.len)) <= STACK_BUF
           /\ ff1_Q_len(last.args.tw.len, FF1_b_of(last.args.len)) <= STACK_BUF
           /\ last.ub # "overflow"

(***************************************************************************)
(* Calls seen round by round, and threads                                  *)
(*                                                                         *)
(* The engines keep everything they work on in automatic variables of the  *)
(* call (A, B, P, Q, R, S, the pointers pA and pB) and read the context    *)
(* and the adapter without writing them.  Here a call is taken one step at *)
(* a time: the entry (checks, split, the two memcpy from in), for every    *)
(* round the cipher part (Q or the reversed block, then the cipher calls)  *)
(* and the arithmetic part (conversion, add or subtract, swap), and the    *)
(* return (the two memcpy to out).  Each thread owns a context, its        *)
(* buffers and the automatic variables of the call it is in; the steps of  *)
(* different threads interleave freely, as in tests/test_thread_safety.c.  *)
(***************************************************************************)

\* Number of threads of the scenario "threads".
NThreads == 2

\* The split with the larger half first in every mode.
SplitU_ceil(mode, len) == (len + 1) \div 2

\* u, the number of digits of the A half: len / 2 in ff1.c, (len + 1) / 2
\* in ff3.c and ff3-1.c.
SplitU(mode, len) == IF mode = FPE_MODE_FF1 THEN len \div 2 ELSE (len + 1) \div 2

\* Number of rounds of the loop of a mode.
RoundsOf(mode) == IF mode = FPE_MODE_FF1 THEN FF1_ROUNDS ELSE FF3_ROUNDS

\* A thread that holds context c and is in no call.
NewThread(c) ==
    [pc |-> "ready", ctx |-> c, calls |-> 0, op |-> "none",
     args |-> CallArg(<< >>, "xb", "xb", 0, TweakOf(0), 0),
     pre |-> InitialMem, mem |-> InitialMem, u |-> 0, v |-> 0, i |-> 0,
     st |-> [A |-> << >>, B |-> << >>, pA |-> "A"],
     y |-> [rc |-> 0, S |-> << >>], rc |-> 0, ub |-> "none",
     mixed |-> FALSE, hist |-> << >>]

\* FPE_CTX_new, then FPE_CTX_init with the mode and radix and a 128-bit
\* AES key, as a worker of test_thread_safety.c does.
ThreadInit(mode, radix) ==
    FPE_CTX_init(CTX, FPE_CTX_new, << >>, mode, FPE_ALGO_AES,
                 [null |-> FALSE, bytes |-> KeyBytes(5)], 128, radix, "ok", FALSE, "stub")

\* The threads of a scenario: NThreads of them, or one.
ThreadsOf(sc) == IF sc = "threads" THEN 1..NThreads ELSE {1}

\* Every thread has created and initialised its own context, all with the
\* same mode, key and radix; the adapter of thread t is the t-th the cipher
\* library has handed out.
InitThreads(sc) ==
    /\ ctx = FPE_CTX_new
    /\ mem = InitialMem
    /\ last = NoCall
    /\ ref = NoRef
    /\ have_sm4 = FALSE
    /\ scenario = sc
    /\ \E mo \in IF sc = "threads" THEN {FPE_MODE_FF1, FPE_MODE_FF3_1}
                  ELSE {FPE_MODE_FF1, FPE_MODE_FF3, FPE_MODE_FF3_1},
          ra \in IF sc = "threads" THEN {10} ELSE {3, 10} :
         /\ evp = [t \in ThreadsOf(sc) |-> ThreadInit(mo, ra).evp[1]]
         /\ threads = [t \in ThreadsOf(sc) |->
                         NewThread([ThreadInit(mo, ra).ctx EXCEPT !.cipher_ctx = t])]

\* The calls thread t may make now.  Scenario "threads": one call on the
\* thread's own digits, an encryption in one thread out of two and a
\* decryption in the others.  Otherwise: an encryption, then the decryption
\* of what it wrote, with the same length and tweak.
ThreadCalls(t, th) ==
    IF scenario = "threads"
      THEN IF th.calls > 0 THEN {}
           ELSE { << IF t % 2 = 1 THEN "encrypt" ELSE "decrypt",
                     CallArg(IF t % 2 = 1 THEN DigitsC(MaxLen) ELSE DigitsA(MaxLen),
                             "xb", "yb", MaxLen, TweakOf(7), 0) >> }
    ELSE IF th.calls = 0
      THEN { << "encrypt", CallArg(d, "xb", "yb", Len(d), tw, 0) >> :
             d \in UNION { {DigitsA(n), DigitsB(n)} : n \in 1..MaxLen },
             tw \in {TweakOf(0), TweakOf(7)} }
    ELSE IF th.calls = 1 /\ th.op = "encrypt" /\ th.rc = 0
      THEN { << "decrypt", [ctxp |-> CTX, fill |-> FALSE, digits |-> th.mem[th.args.outp],
                            inp |-> th.args.outp, outp |-> outp, len |-> th.args.len,
                            tw |-> th.args.tw, fail |-> 0] >> : outp \in {"xb", "yb"} }
    ELSE {}

\* The checks of FPE_encrypt / FPE_decrypt and of the engine of the mode
\* that make a call return -1 before the split.
CallRejected(c, a) ==
    \/ a.inp = "NULL" \/ a.outp = "NULL"
    \/ fpe_validate_tweak(c.mode, a.tw.len) # 0
    \/ c.mode \notin {FPE_MODE_FF1, FPE_MODE_FF3, FPE_MODE_FF3_1}
    \/ a.len < 2 \/ a.len > STACK_BUF
    \/ c.mode # FPE_MODE_FF1 /\ a.tw.len # 8 /\ a.tw.len # 7 /\ a.tw.len # 0

\* The thread has returned rc from its call.
ThreadReturned(th, rc) == [th EXCEPT !.pc = "ready", !.rc = rc, !.calls = @ + 1]

\* Entry of a call: checks, split, memcpy(A, in, u), memcpy(B, in + u, v),
\* and the first round of the direction.
ThreadEnter(th, op, a, pre) ==
    LET u    == SplitU(th.ctx.mode, a.len)
        base == [th EXCEPT !.op = op, !.args = a, !.pre = pre, !.mem = pre,
                           !.mixed = FALSE, !.ub = "none",
                           !.hist = IF op = "encrypt" THEN << >> ELSE @]
    IN  IF CallRejected(th.ctx, a) THEN ThreadReturned(base, -1)
        ELSE [base EXCEPT !.pc = "prf", !.u = u, !.v = a.len - u,
                          !.i = IF op = "encrypt" THEN 0 ELSE RoundsOf(th.ctx.mode) - 1,
                          !.st = LoadHalves(pre, a.inp, a.outp, u, a.len - u)]

\* m of round i: m = (i & 1) ? v : u
RoundM(th) == IF th.i % 2 = 1 THEN th.v ELSE th.u

\* The number of the EVP_EncryptUpdate call of this round, counted from the
\* one at which the provider fails (FF1: calls of one round times rounds
\* done; FF3: one call a round).
RoundsDone(th) == IF th.op = "encrypt" THEN th.i ELSE RoundsOf(th.ctx.mode) - 1 - th.i

\* The bytes a round's cipher part leaves, S of ff1.c or W of ff3.c and
\* ff3-1.c, kept under one name.
Bytes(w) == [rc |-> w.rc, S |-> w.W]

\* The cipher part of the round the thread is in, on halves st: FF1 builds
\* Q from the tweak, the round number and the half pB points to and runs
\* the PRF into S; FF3 and FF3-1 encrypt the reversed block into W.
RoundCipher(th, adapters, st) ==
    LET c == th.ctx
        a == th.args
        b == ff1_b(c.radix, th.v)
    IN  CASE c.mode = FPE_MODE_FF1 ->
               ff1_prf(c, adapters, ff1_P(c.radix, th.u, a.len, a.tw.len), 16,
                       ff1_Q(a.tw, b, th.i, CurB(st), a.len - RoundM(th), c.radix),
                       ff1_Q_len(a.tw.len, b), ff1_d(b),
                       a.fail - RoundsDone(th)
                                  * ff1_prf_calls(ff1_Q_len(a.tw.len, b), ff1_d(b)))
          [] c.mode = FPE_MODE_FF3 ->
               Bytes(ff3_round_encrypt(c, adapters,
                                       IF th.i % 2 = 1 THEN ff3_Tl(a.tw) ELSE ff3_Tr(a.tw),
                                       th.i, CurB(st), a.len - RoundM(th), c.radix,
                                       a.fail = RoundsDone(th) + 1))
          [] OTHER ->
               Bytes(ff3_1_round_encrypt(c, adapters,
                                         IF th.i % 2 = 1 THEN ff3_1_Tl(a.tw)
                                                         ELSE ff3_1_Tr(a.tw),
                                         th.i, CurB(st), a.len - RoundM(th), c.radix,
                                         a.fail = RoundsDone(th) + 1))

\* The arrays of ff1_encrypt / ff1_decrypt do not hold what this call
\* writes to them.
RoundOverflows(th) ==
    /\ th.ctx.mode = FPE_MODE_FF1
    /\ \/ ff1_Q_len(th.args.tw.len, ff1_b(th.ctx.radix, th.v)) > STACK_BUF
       \/ ff1_b(th.ctx.radix, th.v) > STACK_BUF
       \/ ff1_d(ff1_b(th.ctx.radix, th.v)) > STACK_BUF

\* First part of a round, y being what the cipher part gives on halves st
\* (decryption has swapped pA and pB at the top of the round).
ThreadAfterCipher(th, st, y) ==
    [th EXCEPT !.pc = "add", !.st = st, !.y = y,
               !.hist = IF th.op = "encrypt" THEN Append(@, [st |-> st, y |-> y]) ELSE @]

\* A decryption round that works on the halves as the round before left
\* them, without the swap at its top.
ThreadCipher_no_swap(th, adapters) ==
    IF RoundOverflows(th) THEN [th EXCEPT !.pc = "stopped", !.ub = "overflow"]
    ELSE ThreadAfterCipher(th, th.st, RoundCipher(th, adapters, th.st))

\* Thread th after the cipher part of its round.
ThreadCipher(th, adapters) ==
    IF RoundOverflows(th) THEN [th EXCEPT !.pc = "stopped", !.ub = "overflow"]
    ELSE IF th.op = "encrypt" THEN ThreadAfterCipher(th, th.st, RoundCipher(th, adapters, th.st))
    ELSE ThreadAfterCipher(th, SwapPtrs(th.st), RoundCipher(th, adapters, SwapPtrs(th.st)))

\* The arithmetic of the round: y converted to m digits and added to or
\* subtracted from the half pA points to.  Result: [rc, st].
RoundArith(th) ==
    IF th.ctx.mode = FPE_MODE_FF1
      THEN ff1_round_apply(th.y, th.st, RoundM(th), ff1_d(ff1_b(th.ctx.radix, th.v)),
                           th.ctx.radix, th.op = "encrypt")
      ELSE ff3_round_apply([rc |-> th.y.rc, W |-> th.y.S], th.st, RoundM(th), th.ctx.radix,
                           th.op = "encrypt")

\* Second part of a round, r being the result of the arithmetic: return -1
\* when the cipher part failed; otherwise encryption swaps pA and pB, and
\* the loop goes on to the next round or ends.
ThreadAfterArith(th, r) ==
    IF r.rc # 0 THEN ThreadReturned(th, -1)
    ELSE IF th.op = "encrypt"
      THEN IF th.i + 1 >= RoundsOf(th.ctx.mode)
             THEN [th EXCEPT !.pc = "store", !.st = SwapPtrs(r.st), !.i = @ + 1,
                             !.hist = Append(@, [st |-> SwapPtrs(r.st), y |-> th.y])]
             ELSE [th EXCEPT !.pc = "prf", !.st = SwapPtrs(r.st), !.i = @ + 1]
    ELSE [th EXCEPT !.pc = IF th.i - 1 < 0 THEN "store" ELSE "prf", !.st = r.st,
                    !.i = @ - 1]

\* End of a call: memcpy(out, pA, u); memcpy(out + u, pB, v); return 0.
ThreadOutput(th) ==
    ThreadReturned([th EXCEPT !.mem = StoreHalves(th.mem, th.args.outp, th.st, th.u, th.v)],
                   0)

\* Some other thread is inside a call.
Busy(t) == \E o \in DOMAIN threads \ {t} : threads[o].pc \in {"prf", "add", "store"}

\* Thread t has taken a step to th; it has run beside another call if some
\* other thread is inside one.
ThreadStep(t, th) ==
    /\ threads' = [threads EXCEPT ![t] = [th EXCEPT !.mixed = @ \/ Busy(t)]]
    /\ UNCHANGED << ctx, evp, mem, last, ref, have_sm4, scenario >>

\* Thread t enters FPE_encrypt or FPE_decrypt with arguments a, on freshly
\* filled buffers or on the buffers its call before wrote.
ThreadCall(t, op, a) ==
    /\ threads[t].pc = "ready"
    /\ << op, a >> \in ThreadCalls(t, threads[t])
    /\ ThreadStep(t, ThreadEnter(threads[t], op, a,
                                 IF a.fill
                                   THEN [xb |-> a.digits, yb |-> FreshBuffer(Len(a.digits))]
                                   ELSE threads[t].mem))

\* The PRF of a round with its output S in one static array that every
\* call writes: the S of each thread inside a round is overwritten.
ThreadPrf_static_S(t) ==
    /\ threads[t].pc = "prf"
    /\ threads' = [o \in DOMAIN threads |->
                     IF o = t THEN [ThreadCipher(threads[t], evp)
                                      EXCEPT !.mixed = @ \/ Busy(t)]
                     ELSE IF threads[o].pc = "add"
                       THEN [threads[o] EXCEPT !.y = ThreadCipher(threads[t], evp).y]
                     ELSE threads[o]]
    /\ UNCHANGED << ctx, evp, mem, last, ref, have_sm4, scenario >>

\* Thread t runs the cipher part of its round.
ThreadPrf(t) ==
    /\ threads[t].pc = "prf"
    /\ ThreadStep(t, ThreadCipher(threads[t], evp))

\* Thread t runs the arithmetic part of its round.
ThreadAdd(t) ==
    /\ threads[t].pc = "add"
    /\ ThreadStep(t, ThreadAfterArith(threads[t], RoundArith(threads[t])))

\* Thread t writes the output and returns.
ThreadStore(t) ==
    /\ threads[t].pc = "store"
    /\ ThreadStep(t, ThreadOutput(threads[t]))

NextThreads ==
    \/ \E t \in DOMAIN threads :
         \E c \in ThreadCalls(t, threads[t]) : ThreadCall(t, c[1], c[2])
    \/ \E t \in DOMAIN threads : ThreadPrf(t)
    \/ \E t \in DOMAIN threads : ThreadAdd(t)
    \/ \E t \in DOMAIN threads : ThreadStore(t)

\* Threads with a context each, one call a thread, steps interleaved.
SpecThreads == InitThreads("threads") /\ [][NextThreads]_vars

\* One thread, an encryption and the decryption of its output, round by
\* round.
SpecRounds == InitThreads("rounds") /\ [][NextThreads]_vars

\* What the call thread th has made gives when nothing runs beside it.
Alone(th) ==
    IF th.op = "encrypt"
      THEN FPE_encrypt(CTX, th.ctx, evp, th.pre, th.args.inp, th.args.outp, th.args.len,
                       th.args.tw, th.args.fail)
      ELSE FPE_decrypt(CTX, th.ctx, evp, th.pre, th.args.inp, th.args.outp, th.args.len,
                       th.args.tw, th.args.fail)

\* The return code and buffers of th are those of r.
SameAsAlone(th, r) == r.ub = "none" /\ r.rc = th.rc /\ r.mem = th.mem

\* The thread has returned from a call.
HasReturned(th) == th.pc = "ready" /\ th.calls > 0

DecryptsOwnOutput(th) ==
    /\ th.op = "decrypt"
    /\ th.pc \in {"prf", "add", "store"}
    /\ Len(th.hist) = RoundsOf(th.ctx.mode) + 1

\* Encryption has run R rounds: 10 for FF1, 8 for FF3 and FF3-1.
RoundCount(th) ==
    (th.op = "encrypt" /\ th.pc = "store")
      => Len(th.hist) = (IF th.ctx.mode = FPE_MODE_FF1 THEN 10 ELSE 8) + 1

\* Decryption that has processed rounds R-1 down to i+1 holds the halves
\* encryption held just before its round i+1 (after its last round when
\* nothing is processed yet).
HalvesRestored(th) ==
    (DecryptsOwnOutput(th) /\ th.pc \in {"prf", "store"})
      => th.st = th.hist[th.i + 2].st

\* Inside decryption's round i the cipher part has given the y that
\* encryption's round i had, from the same half, which is not the one the
\* subtraction writes.
SameY(th) ==
    (DecryptsOwnOutput(th) /\ th.pc = "add")
      => /\ th.y = th.hist[th.i + 1].y
         /\ th.st.pA = th.hist[th.i + 1].st.pA
         /\ CurB(th.st) = CurB(th.hist[th.i + 1].st)

\* C19: decryption inverts encryption round by round: with R rounds (10 for
\* FF1, 8 for FF3 and FF3-1), the halves decryption holds after rounds R-1
\* down to i are those encryption held just before its round i, and
\* decryption's round i gets the same y from the same untouched half.
C19_StructuralInverse ==
    \A t \in DOMAIN threads :
      RoundCount(threads[t]) /\ HalvesRestored(threads[t]) /\ SameY(threads[t])

\* A decryption of an odd number of digits is halfway through its rounds:
\* its halves are neither the ciphertext's nor the plaintext's.
C19_Reached ==
    \E t \in DOMAIN threads :
      /\ DecryptsOwnOutput(threads[t])
      /\ threads[t].pc = "prf"
      /\ threads[t].i = 3
      /\ threads[t].u # threads[t].v
      /\ threads[t].st # threads[t].hist[1].st
      /\ threads[t].st # threads[t].hist[RoundsOf(threads[t].ctx.mode) + 1].st

\* The thread is inside a call, past the split.
InRounds(th) == th.pc \in {"prf", "add", "store"}

\* u is the floor of len / 2 for FF1 and the ceiling for FF3 and FF3-1,
\* v = len - u, and the A and B buffers hold u and v digits.
SplitAsStated(th) ==
    /\ IF th.ctx.mode = FPE_MODE_FF1
         THEN 2 * th.u <= th.args.len /\ th.args.len < 2 * th.u + 2
         ELSE 2 * th.u >= th.args.len /\ 2 * th.u < th.args.len + 2
    /\ th.v = th.args.len - th.u
    /\ Len(th.st.A) = th.u
    /\ Len(th.st.B) = th.v

\* In round i the half about to be updated is the A buffer of u digits when
\* i is even and the B buffer of v digits when i is odd.
UpdatedHalf(th) ==
    th.pc = "add"
      => IF th.i % 2 = 0 THEN th.st.pA = "A" /\ Len(CurA(th.st)) = th.u
                         ELSE th.st.pA = "B" /\ Len(CurA(th.st)) = th.v

\* After the last round pA points to A, and out holds the u digits of A
\* followed by the v digits of B.
OutputOrder(th) ==
    /\ th.pc = "store" => th.st.pA = "A"
    /\ (HasReturned(th) /\ th.rc = 0)
         => /\ SubSeq(th.mem[th.args.outp], 1, th.u) = th.st.A
            /\ SubSeq(th.mem[th.args.outp], th.u + 1, th.args.len) = th.st.B

\* The arithmetic of a round leaves the other buffer as it was: B on even
\* rounds, A on odd rounds.
OtherHalfKept(th, after) ==
    (th.pc = "add" /\ after.pc # "add")
      => IF th.i % 2 = 0 THEN after.st.B = th.st.B ELSE after.st.A = th.st.A

\* C20: FF1 splits with u = floor(len/2), FF3 and FF3-1 with u =
\* ceil(len/2), v = len - u; in every round i of encryption and decryption
\* the half updated is the A buffer of u digits when i is even and the B
\* buffer of v digits when i is odd; after the last round out holds the u
\* digits of A followed by the v digits of B.
C20_SplitAndParity ==
    /\ [](\A t \in DOMAIN threads :
            /\ InRounds(threads[t]) => SplitAsStated(threads[t])
            /\ UpdatedHalf(threads[t])
            /\ OutputOrder(threads[t]))
    /\ [][\A t \in DOMAIN threads : OtherHalfKept(threads[t], threads'[t])]_vars

\* An FF1 decryption of an odd number of digits has returned 0: A is the
\* shorter half, and the rounds have changed both halves of the ciphertext.
C20_Reached ==
    \E t \in DOMAIN threads :
      /\ HasReturned(threads[t]) /\ threads[t].rc = 0
      /\ threads[t].op = "decrypt"
      /\ threads[t].ctx.mode = FPE_MODE_FF1
      /\ threads[t].u + 1 = threads[t].v
      /\ threads[t].st.A # threads[t].hist[RoundsOf(FPE_MODE_FF1) + 1].st.A
      /\ threads[t].st.B # threads[t].hist[RoundsOf(FPE_MODE_FF1) + 1].st.B

(***************************************************************************)
(* The steps of a round taken alone                                        *)
(*                                                                         *)
(* The conversions and the arithmetic the rounds are made of, applied to   *)
(* inputs drawn from bounded sets; last records the step, its arguments    *)
(* and what it gave.                                                       *)
(***************************************************************************)

\* The radixes of the inputs.
Radixes == {2, 3, 10}

\* The number of digits up to which every numeral of the radix is stepped.
LongestOf(radix) == IF radix >= 10 THEN MaxLen - 2 ELSE MaxLen - 1

\* All numerals of n digits in a radix.
Numerals(radix, n) == { AsSeq(f) : f \in [1..n -> 0..(radix - 1)] }

\* Byte strings of n bytes: all zero, all ones, and patterns.
ByteStrings(n) ==
    { AsSeq([k \in 1..n |-> (s * k * k + 29 * s + k) % 256]) : s \in {0, 5, 77, 130} }
      \cup { AsSeq([k \in 1..n |-> 255]), AsSeq([k \in 1..n |-> 0]),
             AsSeq([k \in 1..n |-> IF k = n THEN 1 ELSE 0]) }

\* A step f applied to arguments x has given out.
Applied(f, x, out) ==
    /\ last.op = "none"
    /\ last' = [op |-> f, outcome |-> "returned", depth |-> 0, args |-> x, out |-> out]
    /\ UNCHANGED << ctx, evp, mem, ref, have_sm4, scenario, threads >>

\* The end of an FF1 encryption round on the half A of m digits, S being
\* the d bytes of the PRF.
AddStep(A, S, radix) ==
    Applied("ff1_add", [A |-> A, S |-> S, radix |-> radix],
            ff1_round_apply([rc |-> 0, S |-> S], [A |-> A, B |-> << >>, pA |-> "A"],
                            Len(A), Len(S), radix, TRUE))

\* radix^n
RECURSIVE Pow(_, _)
Pow(radix, n) == IF n = 0 THEN 1 ELSE radix * Pow(radix, n - 1)

\* NUM(x) of FF1: x[1] is the most significant digit.
RECURSIVE NumOf(_, _, _)
NumOf(x, k, radix) == IF k = 0 THEN 0 ELSE NumOf(x, k - 1, radix) * radix + x[k]

\* The big-endian value of the first k bytes, modulo M.
RECURSIVE ValueMod(_, _, _)
ValueMod(bytes, k, M) ==
    IF k = 0 THEN 0 ELSE (ValueMod(bytes, k - 1, M) * 256 + bytes[k]) % M

\* The numeral of n digits of the number c, most significant digit first.
NumeralOf(c, n, radix) == AsSeq([k \in 1..n |-> (c \div Pow(radix, n - k)) % radix])

\* NUM(A) + y, y being the value of S modulo M.
SumOf(a, M) == NumOf(a.A, Len(a.A), a.radix) + ValueMod(a.S, Len(a.S), M)

\* C21: an FF1 encryption round replaces A by the numeral, in natural order
\* and of m' digits, of (NUM(A) + y) mod radix^m', y being the big-endian
\* value of the d bytes, for every valid A and every y.
C21_ModularAddition ==
    last.op = "ff1_add"
      => /\ last.out.rc = 0 /\ last.out.ub = "none"
         /\ last.out.st.A
              = NumeralOf(SumOf(last.args, Pow(last.args.radix, Len(last.args.A)))
                            % Pow(last.args.radix, Len(last.args.A)),
                          Len(last.args.A), last.args.radix)

\* An addition in radix 10 whose sum passes radix^m': carries ran through
\* the digits and the last one was dropped.
C21_Reached ==
    /\ last.op = "ff1_add"
    /\ last.args.radix = 10
    /\ Len(last.args.A) >= 2
    /\ SumOf(last.args, Pow(10, Len(last.args.A))) >= Pow(10, Len(last.args.A))
    /\ last.out.st.A[1] < last.args.A[1]

\* What the round holds in Q once it is built, Q_len being its length: the
\* bytes written, or, when they do not fit Q[256], the end of the process
\* (a fortified memcpy, a sanitizer) or bytes past the array that other
\* objects of the frame have overwritten.
QBuilt(Q, Q_len) ==
    IF Q_len <= STACK_BUF THEN {[ub |-> "none", len |-> Q_len, Q |-> Q]}
    ELSE {[ub |-> "overflow", len |-> Q_len, Q |-> Q],
          [ub |-> "overflow", len |-> Q_len,
           Q |-> Take(Q, STACK_BUF) \o FreshBuffer(Q_len - STACK_BUF)],
          [ub |-> "terminated", len |-> 0, Q |-> << >>]}

\* The part of an FF1 round that builds Q for round i from the tweak and
\* the half B, b being the byte width of the call.
QStep(tweak, b, i, B, radix) ==
    \E q \in QBuilt(ff1_Q(tweak, b, i, B, Len(B), radix), ff1_Q_len(tweak.len, b)) :
      Applied("ff1_Q", [tweak |-> tweak, b |-> b, i |-> i, B |-> B, radix |-> radix], q)

\* The tweak lengths of the inputs.
TweakLens == {0, 1, 7, 12, 13, 16, 30, 239, 255}

\* p = (-tweak_len - b - 1) mod 16, the mathematical remainder.
PadOf(tweak_len, b) == (16 - ((tweak_len + b + 1) % 16)) % 16

\* Q is tweak, p zero bytes, the round byte, the b bytes of B.
QLayout(a, q) ==
    LET t == a.tweak.len
        p == PadOf(a.tweak.len, a.b)
    IN  /\ q.ub = "none"
        /\ Len(q.Q) = t + p + 1 + a.b
        /\ q.len = Len(q.Q)
        /\ SubSeq(q.Q, 1, t) = a.tweak.bytes
        /\ \A k \in (t + 1)..(t + p) : q.Q[k] = 0
        /\ q.Q[t + p + 1] = a.i
        /\ ValueMod(SubSeq(q.Q, t + p + 2, t + p + 1 + a.b), a.b, Pow(256, a.b))
             = NumOf(a.B, Len(a.B), a.radix) % Pow(256, a.b)
        /\ q.len % 16 = 0
        /\ 16 * (q.len \div 16) = Len(q.Q)

\* C22: in every FF1 round, for every tweak length and every b, Q is the
\* tweak, p = (-tweak_len - b - 1) mod 16 zero bytes, the round byte and the
\* b bytes of B; its length is a multiple of 16 and the CBC-MAC loop over
\* Q_len / 16 blocks consumes all of it.
C22_QLayout == last.op = "ff1_Q" => QLayout(last.args, last.out)

\* The layout holds whenever Q fits its array.
QLayoutWhereDefined ==
    (last.op = "ff1_Q" /\ last.out.ub = "none") => QLayout(last.args, last.out)

\* The digits in the opposite order.
Reversed(x) == AsSeq([k \in 1..Len(x) |-> x[Len(x) + 1 - k]])

\* The four conversions on the digits x and a width: the reversed encoding
\* of x, the natural encoding of x reversed, and both decoded with the
\* digit count of x.
CodecStep(x, radix, width) ==
    Applied("codec", [x |-> x, radix |-> radix, width |-> width],
            [rev      |-> num_to_bytes_rev(x, Len(x), radix, width),
             nat      |-> num_to_bytes(Reversed(x), Len(x), radix, width),
             back_rev |-> bytes_to_num_rev(num_to_bytes_rev(x, Len(x), radix, width),
                                           Len(x), radix),
             back_nat |-> bytes_to_num(num_to_bytes(Reversed(x), Len(x), radix, width),
                                       Len(x), radix)])

\* Digit sequences of the codec inputs: every numeral of up to three
\* digits in the small radixes, patterns in the large ones.
CodecDigits(radix) ==
    IF radix <= 10 THEN UNION { Numerals(radix, n) : n \in 1..LongestOf(radix) }
    ELSE { AsSeq([k \in 1..n |-> (s * k * k + 7919 * k + s) % radix]) :
             n \in 1..MaxLen, s \in {0, 1, 250, 65535} }
           \cup { AsSeq([k \in 1..n |-> IF k = 1 THEN radix - 1 ELSE 0]) : n \in 1..MaxLen }

\* The least sufficient width for n digits: ceil(n * log2(radix) / 8).
WidthNeeded(radix, n) == ceildiv(CeilLog2Pow(radix, n), 8)

\* The sum of x[i] * radix^i over the first k digits (x[0] the least
\* significant), modulo M.
RECURSIVE RevValueMod(_, _, _, _)
RevValueMod(x, k, radix, M) ==
    IF k > Len(x) THEN 0 ELSE (x[k] + radix * RevValueMod(x, k + 1, radix, M)) % M

\* C24: for every radix, digits below the radix and every sufficient
\* width, num_to_bytes_rev gives the bytes of num_to_bytes on the reversed
\* digits, the big-endian value of the sum of digits[i] * radix^i (the two
\* values are compared modulo the prime 32749);
\* bytes_to_num_rev and bytes_to_num give back the digits they came from;
\* the width is kept and no leading zero is stripped.
C24_NumeralCodec ==
    last.op = "codec"
      => /\ last.out.rev = last.out.nat
         /\ Len(last.out.rev) = last.args.width
         /\ ValueMod(last.out.rev, last.args.width, 32749)
              = RevValueMod(last.args.x, 1, last.args.radix, 32749)
         /\ last.out.back_rev = last.args.x
         /\ last.out.back_nat = Reversed(last.args.x)

\* Digits that are not their own reverse, with a zero as most significant
\* digit, encoded into more bytes than needed: leading zero bytes and a
\* leading zero digit are kept.
C24_Reached ==
    /\ last.op = "codec"
    /\ Len(last.args.x) >= 3
    /\ last.args.x # Reversed(last.args.x)
    /\ last.args.x[Len(last.args.x)] = 0
    /\ last.args.x[1] # 0
    /\ last.args.width > WidthNeeded(last.args.radix, Len(last.args.x))
    /\ last.out.rev[1] = 0
    /\ last.out.rev[last.args.width] # 0

\* Tweaks of n bytes: the bytes of TweakOf(n) with tweak[6] replaced, all
\* zero bytes, and all 0xFF bytes.
StepTweaks(n) ==
    IF n = 0 THEN {TweakOf(0)}
    ELSE { [TweakOf(n) EXCEPT !.bytes[7] = t6] : t6 \in {92, 94} }
           \cup { [TweakOf(n) EXCEPT !.bytes = Zeros(n)],
                  [TweakOf(n) EXCEPT !.bytes = AsSeq([k \in 1..n |-> 255])] }

\* The pairs << pA, pB >> of halves a round is applied to.
StepHalves(radix) ==
    CASE radix = 3 -> Numerals(3, 1) \X Numerals(3, 2)
      [] radix = 10 -> {<< 0, 9 >>, << 9, 1 >>, << 5 >>} \X {<< 1, 2 >>, << 9, 9, 9 >>, << 0 >>}
      [] OTHER -> {<< << 65535 >>, Take(DigitsW(14), 7) >>, << << 7 >>, Take(DigitsW(12), 6) >>}

\* Round i of ff3_encrypt / ff3_1_encrypt on the halves pA = A, pB = B of a
\* context keyed by FPE_CTX_init: the tweak halves, the block before and
\* after the byte reversal, and the halves after the addition.
BlockStep(mode, tweak, i, A, B, radix) ==
    LET c  == ThreadInit(mode, radix)
        Tl == IF mode = FPE_MODE_FF3 THEN ff3_Tl(tweak) ELSE ff3_1_Tl(tweak)
        Tr == IF mode = FPE_MODE_FF3 THEN ff3_Tr(tweak) ELSE ff3_1_Tr(tweak)
        P  == ff3_plaintext(IF i % 2 = 1 THEN Tl ELSE Tr, i, B, Len(B), radix)
    IN  Applied("ff3_round",
                [mode |-> mode, tweak |-> tweak, i |-> i, A |-> A, B |-> B, radix |-> radix],
                [Tl |-> Tl, Tr |-> Tr, P |-> P, block |-> fpe_reverse_bytes(P),
                 r |-> ff3_round(c.ctx, c.evp, [A |-> A, B |-> B, pA |-> "A"], i,
                                 Len(A) + Len(B),
                                 IF i % 2 = 1 THEN Len(B) ELSE Len(A),
                                 IF i % 2 = 1 THEN Len(A) ELSE Len(B),
                                 Tl, Tr, TRUE, FALSE, mode)])

\* The left and right halves the specification of FF3 derives from a tweak.
StatedTl(tweak) == IF tweak.len = 0 THEN << 0, 0, 0, 0 >> ELSE SubSeq(tweak.bytes, 1, 4)

StatedTr(tweak) ==
    CASE tweak.len = 8 -> SubSeq(tweak.bytes, 5, 8)
      [] tweak.len = 7 -> SubSeq(tweak.bytes, 5, 7) \o << 0 >>
      [] OTHER -> << 0, 0, 0, 0 >>

\* The cipher applied to a block under the key of the stepped context.
CiphOf(mode, radix, block) ==
    EVP_EncryptUpdate(AdapterOf(ThreadInit(mode, radix).ctx, ThreadInit(mode, radix).evp),
                      block, FALSE).out

\* The m digits, least significant first, of the number c.
RevNumeralOf(c, m, radix) == AsSeq([k \in 1..m |-> (c \div Pow(radix, k - 1)) % radix])

\* The last step is a round of the mode.
RoundOf(mode) == last.op = "ff3_round" /\ last.args.mode = mode

\* C25: in round i of FF3 the block given to the cipher is the byte reversal
\* of P; P[0..4] is Tr for even i and Tl for odd i with P[3] XORed with i;
\* P[4..16] is the 12-byte big-endian digit-reversed encoding of B; Tl and
\* Tr are T[0..4] and T[4..8] (T[4..7] and a zero byte for 7 bytes, zero for
\* an empty tweak); the cipher output is byte-reversed before it is reduced
\* modulo radix^m and added to A.
C25_FF3RoundBlock ==
    RoundOf(FPE_MODE_FF3)
      => LET a == last.args
             o == last.out
             T == IF a.i % 2 = 0 THEN StatedTr(a.tweak) ELSE StatedTl(a.tweak)
             M == Pow(a.radix, Len(a.A))
         IN  /\ o.Tl = StatedTl(a.tweak)
             /\ o.Tr = StatedTr(a.tweak)
             /\ Len(o.P) = 16
             /\ SubSeq(o.P, 1, 4) = << T[1], T[2], T[3], XorByte(T[4], a.i) >>
             /\ SubSeq(o.P, 5, 16) = num_to_bytes_rev(a.B, Len(a.B), a.radix, 12)
             /\ a.radix <= 10
                  => ValueMod(SubSeq(o.P, 5, 16), 12, 32749)
                       = RevValueMod(a.B, 1, a.radix, 32749)
             /\ o.block = Reversed(o.P)
             /\ o.r.rc = 0
             /\ o.r.st.B = a.B
             /\ o.r.st.A
                  = RevNumeralOf((RevValueMod(a.A, 1, a.radix, M)
                                    + ValueMod(Reversed(CiphOf(a.mode, a.radix, o.block)),
                                               16, M)) % M,
                                 Len(a.A), a.radix)

\* An odd round of FF3 on a 7-byte tweak and a half of more than 96 bits has
\* been taken, and an even one.
C25_Reached ==
    /\ RoundOf(FPE_MODE_FF3)
    /\ last.args.tweak.len = 7
    /\ last.args.tweak.bytes[7] = 94
    /\ last.args.i = 5
    /\ last.args.radix = MAX_RADIX
    /\ Len(last.args.B) = 7
    /\ last.out.P[4] = XorByte(last.args.tweak.bytes[4], 5)
    /\ last.out.r.st.A # last.args.A

\* The digit strings whole FF3-1 calls are applied to.
StepDigits(radix) ==
    IF radix = 3 THEN {<< 0, 0 >>, << 2, 1, 0 >>, << 1, 2, 2, 1 >>}
    ELSE {<< 1, 2, 3 >>, << 9, 0, 9, 9 >>, << 0, 0 >>}

\* FPE_encrypt or FPE_decrypt of the digits x with the tweak on an FF3-1
\* context keyed by FPE_CTX_init, and the tweak halves of the call.
TweakStep(tweak, x, radix, encrypting) ==
    LET c  == ThreadInit(FPE_MODE_FF3_1, radix)
        m0 == [xb |-> x, yb |-> FreshBuffer(Len(x))]
    IN  Applied("ff3_1_call",
                [tweak |-> tweak, x |-> x, radix |-> radix, encrypting |-> encrypting],
                [Tl |-> ff3_1_Tl(tweak), Tr |-> ff3_1_Tr(tweak),
                 r |-> IF encrypting
                         THEN FPE_encrypt(CTX, c.ctx, c.evp, m0, "xb", "yb", Len(x), tweak, 0)
                         ELSE FPE_decrypt(CTX, c.ctx, c.evp, m0, "xb", "yb", Len(x), tweak, 0)])

\* The seven tweak bytes the specification of FF3-1 derives the halves from.
SevenOf(tweak) == IF tweak.len = 0 THEN << 0, 0, 0, 0, 0, 0, 0 >> ELSE SubSeq(tweak.bytes, 1, 7)

Stated1Tl(tweak) ==
    LET T == SevenOf(tweak) IN << T[1], T[2], T[3], T[4] - (T[4] % 16) >>

Stated1Tr(tweak) ==
    LET T == SevenOf(tweak) IN << T[4] % 16, T[5], T[6], T[7] >>

\* The digits the eight rounds of FF3-1 give on the halves Tl, Tr.
RoundsOn(a, Tl, Tr) ==
    LET c  == ThreadInit(FPE_MODE_FF3_1, a.radix)
        u  == (Len(a.x) + 1) \div 2
        v  == Len(a.x) - u
        st == [A |-> SubSeq(a.x, 1, u), B |-> SubSeq(a.x, u + 1, u + v), pA |-> "A"]
        r  == IF a.encrypting
                THEN ff3_encrypt_rounds(c.ctx, c.evp, st, 0, Len(a.x), u, v, Tl, Tr, 0,
                                        FPE_MODE_FF3_1)
                ELSE ff3_decrypt_rounds(c.ctx, c.evp, st, FF3_1_ROUNDS - 1, Len(a.x), u, v,
                                        Tl, Tr, 0, FPE_MODE_FF3_1)
    IN  r.st.A \o r.st.B

\* The result of the same call with another tweak.
WithTweak(a, bytes) ==
    LET c  == ThreadInit(FPE_MODE_FF3_1, a.radix)
        m0 == [xb |-> a.x, yb |-> FreshBuffer(Len(a.x))]
        tw == [null |-> FALSE, len |-> Len(bytes), bytes |-> bytes]
    IN  IF a.encrypting
          THEN FPE_encrypt(CTX, c.ctx, c.evp, m0, "xb", "yb", Len(a.x), tw, 0)
          ELSE FPE_decrypt(CTX, c.ctx, c.evp, m0, "xb", "yb", Len(a.x), tw, 0)

PrefixOf(tweak, j) ==
    SubSeq(ff3_plaintext(IF j % 2 = 1 THEN ff3_1_Tl(tweak) ELSE ff3_1_Tr(tweak), j, << 0 >>,
                         1, 10),
           1, 4)

\* No round other than i has, under a tweak of the stepped set, the prefix p.
NotReproduced(p, i) ==
    \A n \in {0, 7, 8} : \A t \in StepTweaks(n) :
      \A j \in 0..(FF3_1_ROUNDS - 1) : j # i => PrefixOf(t, j) # p

\* C27: in every round of FF3-1 each tweak half carries 28 tweak bits, the
\* low nibble of prefix byte 3 holds no tweak bit and equals the round index
\* i, and no tweak reproduces the prefix of round i in another round.
C27_RoundIndexNibble ==
    RoundOf(FPE_MODE_FF3_1)
      => /\ last.out.Tl[4] % 16 = 0
         /\ last.out.Tr[1] \div 16 = 0
         /\ last.out.P[4] % 16 = last.args.i
         /\ NotReproduced(SubSeq(last.out.P, 1, 4), last.args.i)

\* In the rounds that use Tl (the odd ones) the low nibble of prefix byte 3
\* is the round index, and rounds of one tweak that use the same half have
\* different prefixes.
RoundIndexWhereFree ==
    RoundOf(FPE_MODE_FF3_1)
      => /\ last.args.i % 2 = 1 => last.out.P[4] % 16 = last.args.i
         /\ \A j \in 0..(FF3_1_ROUNDS - 1) :
              (j # last.args.i /\ j % 2 = last.args.i % 2)
                => PrefixOf(last.args.tweak, j) # SubSeq(last.out.P, 1, 4)

NextSteps ==
    \/ \E radix \in Radixes :
         \E m \in 1..LongestOf(radix) :
           \E A \in Numerals(radix, m), S \in ByteStrings(8) : AddStep(A, S, radix)
    \/ \E n \in TweakLens, b \in 1..2, i \in {0, 1, 9}, radix \in {2, 10} :
         \E B \in Numerals(radix, 1) \cup Numerals(radix, 2) :
           QStep(TweakOf(n), b, i, B, radix)
    \/ \E radix \in {2, 3, 10, 256, MAX_RADIX} :
         \E x \in CodecDigits(radix) :
           \E extra \in {0, 1, 5} : CodecStep(x, radix, WidthNeeded(radix, Len(x)) + extra)
    \/ \E mode \in {FPE_MODE_FF3, FPE_MODE_FF3_1}, n \in {0, 7, 8}, i \in 0..(FF3_ROUNDS - 1),
            radix \in {3, 10, MAX_RADIX} :
         \E tweak \in StepTweaks(n), h \in StepHalves(radix) :
           BlockStep(mode, tweak, i, h[1], h[2], radix)
    \/ \E n \in {0, 7, 8}, radix \in {3, 10}, encrypting \in BOOLEAN :
         \E tweak \in StepTweaks(n), x \in StepDigits(radix) :
           TweakStep(tweak, x, radix, encrypting)

\* Every step on every input of the bounded sets.
SpecSteps == InitOf("steps") /\ [][NextSteps]_vars

\* Calls on halves of 96 and of 112 bits.
SpecWide == InitOf("wide") /\ [][Next]_vars

\* The number of digits of the larger half of a call, the one rounds
\* encode: v for FF1, u for FF3 and FF3-1.
LargerHalf(mode, len) ==
    IF mode = FPE_MODE_FF1 THEN len - len \div 2 ELSE (len + 1) \div 2

\* The byte width the engine of the mode encodes that half into.
WidthUsed(mode, radix, len) ==
    IF mode = FPE_MODE_FF1 THEN ff1_b(radix, LargerHalf(mode, len))
    ELSE ff3_b(radix, LargerHalf(mode, len))

\* The bytes the engine of the mode makes of a half x of n digits.
EncodingOf(mode, x, n, radix, width) ==
    IF mode = FPE_MODE_FF1 THEN num_to_bytes(x, n, radix, width)
    ELSE num_to_bytes_rev(x, n, radix, width)

\* The half x with its most significant digit changed (the first digit for
\* FF1, the last for FF3 and FF3-1).
OtherHalfOf(mode, x, n, radix) ==
    IF mode = FPE_MODE_FF1 THEN [x EXCEPT ![1] = (@ + 1) % radix]
    ELSE [x EXCEPT ![n] = (@ + 1) % radix]

\* The call has been accepted and has run without undefined behaviour.
Accepted(c) == IsCall(c) /\ c.outcome = "returned" /\ c.ub = "none" /\ c.rc = 0

\* C23: in every accepted call the byte width a half is encoded into is at
\* least ceil(len(B) * log2(radix) / 8), so distinct halves have distinct
\* encodings; inputs whose halves do not fit the width are rejected.
C23_NoTruncation ==
    Accepted(last)
      => LET mode == ctx.mode
             n    == LargerHalf(ctx.mode, last.args.len)
             w    == WidthUsed(ctx.mode, ctx.radix, last.args.len)
             x    == Take(last.args.digits, LargerHalf(ctx.mode, last.args.len))
         IN  /\ 8 * w >= CeilLog2Pow(ctx.radix, n)
             /\ EncodingOf(mode, x, n, ctx.radix, w)
                  # EncodingOf(mode, OtherHalfOf(mode, x, n, ctx.radix), n, ctx.radix, w)

\* For FF1, and for FF3 and FF3-1 halves of at most 96 bits, the width is
\* sufficient.
WidthWhereFits ==
    (Accepted(last)
       /\ (ctx.mode = FPE_MODE_FF1
             \/ CeilLog2Pow(ctx.radix, LargerHalf(ctx.mode, last.args.len)) <= 96))
      => 8 * WidthUsed(ctx.mode, ctx.radix, last.args.len)
           >= CeilLog2Pow(ctx.radix, LargerHalf(ctx.mode, last.args.len))

\* The adapters EVP_CIPHER_CTX_new has returned and nothing has released.
LiveAdapters == { h \in 1..Len(evp) : ~evp[h].freed }

\* C28: the context owns at most one live cipher adapter, and when
\* FPE_CTX_free has released the context every adapter FPE_CTX_init
\* allocated for it has been released, whatever init calls came before.
C28_AdapterOwnership ==
    /\ Cardinality(LiveAdapters) <= 1
    /\ (last.op = "free" /\ last.outcome = "released") => LiveAdapters = {}

\* FPE_CTX_free releases the adapter the context points to.
FreeReleasesCurrent ==
    (last.op = "free" /\ last.outcome = "released" /\ last.pre.ctx.cipher_ctx # NULL)
      => /\ evp[last.pre.ctx.cipher_ctx].freed
         /\ LiveAdapters = { h \in 1..Len(last.pre.evp) : ~last.pre.evp[h].freed }
                             \ {last.pre.ctx.cipher_ctx}

\* The context holds a stored configuration and no keyed adapter: the state
\* an init leaves when it fails after storing the configuration.
HalfApplied ==
    /\ ctx.key_len # 0
    /\ ctx.cipher_ctx = NULL \/ ~evp[ctx.cipher_ctx].keyed

\* The key the adapter of a context of this mode is given.
AdapterKeyOf(c) ==
    IF c.mode = FPE_MODE_FF1 THEN Take(c.key, c.key_len)
    ELSE fpe_reverse_key(Take(c.key, c.key_len), c.key_len)

NullTweakCall ==
    /\ IsCall(last) /\ Initialised
    /\ last.args.ctxp = CTX /\ last.args.inp # "NULL" /\ last.args.outp # "NULL"
    /\ last.args.tw.null

\* The last call has ended as the same call with an empty tweak that is not
\* NULL ends, with 0 when its digits are of the alphabet.
AsEmptyTweak ==
    LET a == last.args
        r == IF last.op = "encrypt"
               THEN FPE_encrypt(CTX, ctx, evp, last.pre, a.inp, a.outp, a.len, TweakOf(0), 0)
               ELSE FPE_decrypt(CTX, ctx, evp, last.pre, a.inp, a.outp, a.len, TweakOf(0), 0)
    IN  /\ last.outcome = "returned"
        /\ r.ub = "none" /\ last.rc = r.rc /\ mem = r.mem
        /\ (a.len >= 2 /\ ValidDigits(last.pre[a.inp], a.len, ctx.radix)) => last.rc = 0

\* C30: in every mode FPE_encrypt and FPE_decrypt accept a NULL tweak
\* pointer when tweak_len is 0, and with tweak_len > 0 they return -1 and
\* read nothing through the pointer.
C30_NullTweakNotRead ==
    NullTweakCall
      => IF last.args.tw.len = 0 THEN AsEmptyTweak
         ELSE last.outcome = "returned" /\ last.rc = -1 /\ mem = last.pre

\* A NULL tweak pointer with tweak_len 0 is accepted in every mode.
NullTweakWhenEmpty == (NullTweakCall /\ last.args.tw.len = 0) => AsEmptyTweak

====
